---- MODULE Spec2Model ----
(***************************************************************************)
(* CMS storage core of try-elysia: the two CMSStorage variants             *)
(* (InMemoryCMSStorage, SupabaseCMSStorage), the backend selector          *)
(* getCMSStorage, the identity derivation of the app and the requireAuth   *)
(* guard.                                                                  *)
(*                                                                         *)
(* The specifications share the variables:                                 *)
(*   SpecStorage  the storage contract.  One InMemoryCMSStorage object and *)
(*                one SupabaseCMSStorage object receive the same calls     *)
(*                with the same arguments (a product of the two            *)
(*                configurations of the process), so that claims about     *)
(*                "either variant" are checked on both and the variants    *)
(*                can be compared call by call.                            *)
(*   Spec         HTTP requests, one at a time: derive, guard, handler.    *)
(*   SpecSanitize the validators and sanitizers applied to bounded inputs. *)
(*   SpecCreate   POST /cms/text through derive, guard and handler.        *)
(*   SpecWrite    the create and update routes of the CMS.                 *)
(*   SpecConcurrent two calls on one blog storage, interleaved at awaits.  *)
(*   SpecImage    POST /image/upload and GET /image/:filename of the app.  *)
(*                                                                         *)
(* The maps (tables) of the three entity kinds are disjoint and no         *)
(* operation reads or writes two of them, so a behaviour works on one      *)
(* kind, chosen initially; every kind is explored.                         *)
(*                                                                         *)
(* Timestamps are logical: `now` is the clock read by `new Date()`, it     *)
(* advances with every save and update.  An unset optional timestamp       *)
(* (undefined in TypeScript, NULL in the table) is NoTime.                 *)
(***************************************************************************)
EXTENDS Integers, Sequences, FiniteSets, TLC

VARIABLES
  mem,        \* InMemoryCMSStorage: textContent, blogPosts, pageConfigs maps
  db,         \* remote database: text_content, blog_posts, page_configs tables
  client,     \* SupabaseCMSStorage.client of the Durable instance in use
  now,        \* the clock
  nextId,     \* next generated identifier
  call,       \* the storage call made last: op and arguments
  resMem,     \* what the Ephemeral variant returned for it
  resDb,      \* what the Durable variant returned for it
  configured, \* supabase !== null (SUPABASE_URL and SUPABASE_ANON_KEY set)
  req,        \* the HTTP request in progress
  kind,       \* the entity kind the behaviour works on
  san,        \* the value being validated or sanitized, and the results
  images      \* InMemoryStorage.storage of the app: image data by filename

vars == <<mem, db, client, now, nextId, call, resMem, resDb, configured, req, kind,
         san, images>>

---------------------------------------------------------------------------
(* Bounds and input domains *)

MaxTime == 2

Keys == {"k1", "k2"}          \* natural keys: key, slug, pageKey
SavedVals == {"v1"}           \* content / title / config given to save
UpdateVals == {"v2"}          \* content / title / config given to update
Kinds == {"text", "blog", "page"}

NoTime == 0
NoVal == <<>>
NoSan == [op |-> "none"]

(* The default client (module-level `supabase`) and a token-scoped client. *)
ServiceClient == "service"
UserClient == "user:tok1"
Clients == {ServiceClient, UserClient}

---------------------------------------------------------------------------
(* JavaScript helpers *)

(* {...a, ...b}: keys of b win *)
Spread(a, b) == b @@ a

Has(o, f) == f \in DOMAIN o

(* o.f for an optional timestamp field *)
TimeField(o, f) == IF f \in DOMAIN o THEN o[f] ELSE NoTime

Restrict(f, S) == [i \in S |-> f[i]]

MapSet(m, id, v) == (id :> v) @@ m

MapDelete(m, id) == Restrict(m, DOMAIN m \ {id})

EmptyMap == Restrict(<<>>, {})

Opt(f, S) == {EmptyMap} \cup {(f :> v) : v \in S}

RECURSIVE AscIds(_)
AscIds(S) ==
  IF S = {} THEN <<>>
  ELSE LET i == CHOOSE j \in S : \A k \in S : j <= k
       IN <<i>> \o AscIds(S \ {i})

RECURSIVE DescIds(_)
DescIds(S) ==
  IF S = {} THEN <<>>
  ELSE LET i == CHOOSE j \in S : \A k \in S : j >= k
       IN <<i>> \o DescIds(S \ {i})

(* Array.from(map.values()): a Map iterates in insertion order; ids grow   *)
(* with insertion and set() on an existing key keeps its position.         *)
MapValues(m) == LET o == AscIds(DOMAIN m) IN [i \in 1..Len(o) |-> m[o[i]]]

Ret(store, out, val) == [store |-> store, out |-> out, val |-> val]

---------------------------------------------------------------------------
(* InMemoryCMSStorage *)

InMemoryCMSStorage == [textContent |-> EmptyMap, blogPosts |-> EmptyMap,
                       pageConfigs |-> EmptyMap]

(* for (const e of map.values()) if (e[f] === v) return e; return null *)
FirstWhere(m, f, v) ==
  LET hits == {i \in DOMAIN m : m[i][f] = v}
  IN IF hits = {} THEN [out |-> "null", val |-> NoVal]
     ELSE [out |-> "entity",
           val |-> m[CHOOSE i \in hits : \A j \in hits : i <= j]]

MemGet(m, id) ==
  IF id \in DOMAIN m THEN [out |-> "entity", val |-> m[id]]
  ELSE [out |-> "null", val |-> NoVal]

Mem_saveTextContent(m, content, t, id) ==
  LET textContent == Spread(content, [id |-> id, createdAt |-> t, updatedAt |-> t])
  IN Ret([m EXCEPT !.textContent = MapSet(@, id, textContent)], "entity", textContent)

Mem_getTextContent(m, id) ==
  LET r == MemGet(m.textContent, id) IN Ret(m, r.out, r.val)

Mem_getTextContentByKey(m, key) ==
  LET r == FirstWhere(m.textContent, "key", key) IN Ret(m, r.out, r.val)

Mem_listTextContent(m) == Ret(m, "list", MapValues(m.textContent))

(* variant of updateTextContent that merges the partial but keeps the old *)
(* updatedAt                                                            *)
Mem_updateTextContent_StaleUpdatedAt(m, id, updates, t) ==
  IF id \notin DOMAIN m.textContent THEN Ret(m, "null", NoVal)
  ELSE LET existing == m.textContent[id]
           updated == Spread(existing, updates)
       IN Ret([m EXCEPT !.textContent = MapSet(@, id, updated)], "entity", updated)

Mem_updateTextContent(m, id, updates, t) ==
  IF id \notin DOMAIN m.textContent THEN Ret(m, "null", NoVal)
  ELSE LET existing == m.textContent[id]
           updated == Spread(Spread(existing, updates), [updatedAt |-> t])
       IN Ret([m EXCEPT !.textContent = MapSet(@, id, updated)], "entity", updated)

Mem_deleteTextContent(m, id) ==
  Ret([m EXCEPT !.textContent = MapDelete(@, id)],
      IF id \in DOMAIN m.textContent THEN "true" ELSE "false", NoVal)

Mem_saveBlogPost(m, post, t, id) ==
  LET blogPost ==
        Spread(post,
               [id |-> id, createdAt |-> t, updatedAt |-> t,
                publishedAt |-> IF post.published /\ TimeField(post, "publishedAt") = NoTime
                                THEN t ELSE TimeField(post, "publishedAt")])
  IN Ret([m EXCEPT !.blogPosts = MapSet(@, id, blogPost)], "entity", blogPost)

Mem_getBlogPost(m, id) ==
  LET r == MemGet(m.blogPosts, id) IN Ret(m, r.out, r.val)

Mem_getBlogPostBySlug(m, slug) ==
  LET r == FirstWhere(m.blogPosts, "slug", slug) IN Ret(m, r.out, r.val)

(* published is "undefined" (no filter), "true" or "false" *)
Mem_listBlogPosts(m, published) ==
  LET posts == MapValues(m.blogPosts)
      keep(post) == post.published = (published = "true")
  IN Ret(m, "list", IF published # "undefined" THEN SelectSeq(posts, keep) ELSE posts)

Mem_updateBlogPost(m, id, updates, t) ==
  IF id \notin DOMAIN m.blogPosts THEN Ret(m, "null", NoVal)
  ELSE LET existing == m.blogPosts[id]
           updated ==
             Spread(Spread(existing, updates),
                    [updatedAt |-> t,
                     publishedAt |->
                       IF Has(updates, "published") /\ updates.published
                          /\ existing.publishedAt = NoTime
                       THEN t ELSE existing.publishedAt])
       IN Ret([m EXCEPT !.blogPosts = MapSet(@, id, updated)], "entity", updated)

Mem_deleteBlogPost(m, id) ==
  Ret([m EXCEPT !.blogPosts = MapDelete(@, id)],
      IF id \in DOMAIN m.blogPosts THEN "true" ELSE "false", NoVal)

Mem_savePageConfig(m, config, t, id) ==
  LET pageConfig == Spread(config, [id |-> id, createdAt |-> t, updatedAt |-> t])
  IN Ret([m EXCEPT !.pageConfigs = MapSet(@, id, pageConfig)], "entity", pageConfig)

Mem_getPageConfig(m, id) ==
  LET r == MemGet(m.pageConfigs, id) IN Ret(m, r.out, r.val)

Mem_getPageConfigByKey(m, pageKey) ==
  LET r == FirstWhere(m.pageConfigs, "pageKey", pageKey) IN Ret(m, r.out, r.val)

Mem_listPageConfigs(m) == Ret(m, "list", MapValues(m.pageConfigs))

Mem_updatePageConfig(m, id, updates, t) ==
  IF id \notin DOMAIN m.pageConfigs THEN Ret(m, "null", NoVal)
  ELSE LET existing == m.pageConfigs[id]
           updated == Spread(Spread(existing, updates), [updatedAt |-> t])
       IN Ret([m EXCEPT !.pageConfigs = MapSet(@, id, updated)], "entity", updated)

Mem_deletePageConfig(m, id) ==
  Ret([m EXCEPT !.pageConfigs = MapDelete(@, id)],
      IF id \in DOMAIN m.pageConfigs THEN "true" ELSE "false", NoVal)

---------------------------------------------------------------------------
(* The remote database as the calls of SupabaseCMSStorage use it.          *)
(* A call returns {data, error}; `fail` is a failure of the backend call   *)
(* itself (network, service), in which case nothing is applied.            *)
(* error: "none", "backend", "conflict" (UNIQUE violation) or "norows"     *)
(* (.single() found no row).                                               *)

Reply(error, data, tbl) == [error |-> error, data |-> data, tbl |-> tbl]

(* key, slug, page_key are TEXT NOT NULL UNIQUE *)
UniqueViolation(tbl, col, v, self) ==
  \E i \in DOMAIN tbl \ {self} : tbl[i][col] = v

(* .from(t).insert(row).select().single(); id UUID DEFAULT uuid_generate_v4() *)
DbInsert(tbl, uniq, row, id, fail) ==
  IF fail THEN Reply("backend", NoVal, tbl)
  ELSE IF UniqueViolation(tbl, uniq, row[uniq], 0) THEN Reply("conflict", NoVal, tbl)
  ELSE LET data == Spread(row, [id |-> id])
       IN Reply("none", data, MapSet(tbl, id, data))

(* .from(t).select().eq(col, v).single() *)
DbSelectSingle(tbl, col, v, fail) ==
  LET hits == {i \in DOMAIN tbl : tbl[i][col] = v}
  IN IF fail THEN Reply("backend", NoVal, tbl)
     ELSE IF Cardinality(hits) # 1 THEN Reply("norows", NoVal, tbl)
     ELSE Reply("none", tbl[CHOOSE i \in hits : TRUE], tbl)

(* .from(t).select().order("created_at", {ascending: false}); rows are     *)
(* created in id order at distinct times                                   *)
DbSelectOrdered(tbl, fail) ==
  IF fail THEN Reply("backend", NoVal, tbl)
  ELSE LET o == DescIds(DOMAIN tbl)
       IN Reply("none", [i \in 1..Len(o) |-> tbl[o[i]]], tbl)

(* .from(t).update(updateData).eq("id", id).select().single() *)
DbUpdate(tbl, uniq, id, updateData, fail) ==
  IF fail THEN Reply("backend", NoVal, tbl)
  ELSE IF id \notin DOMAIN tbl THEN Reply("norows", NoVal, tbl)
  ELSE IF Has(updateData, uniq) /\ UniqueViolation(tbl, uniq, updateData[uniq], id)
       THEN Reply("conflict", NoVal, tbl)
  ELSE LET data == Spread(tbl[id], updateData)
       IN Reply("none", data, MapSet(tbl, id, data))

(* .from(t).delete().eq("id", id): deleting no row is not an error *)
DbDelete(tbl, id, fail) ==
  IF fail THEN Reply("backend", NoVal, tbl)
  ELSE Reply("none", NoVal, MapDelete(tbl, id))

EmptyDatabase == [text_content |-> EmptyMap, blog_posts |-> EmptyMap,
                  page_configs |-> EmptyMap]

---------------------------------------------------------------------------
(* SupabaseCMSStorage.  cl is this.client; calls written against the       *)
(* module-level `supabase` go through ServiceClient.  via lists the client *)
(* of every remote call of the operation, errs the error of each.          *)

NoClient == "null"

(* constructor: this.client = client || supabase *)
SupabaseCMSStorage(c) == IF c = NoClient THEN ServiceClient ELSE c

DRet(store, out, val, via, errs) ==
  [store |-> store, out |-> out, val |-> val, via |-> via, errs |-> errs]

toTextContent(data) ==
  [id |-> data.id, key |-> data.key, content |-> data.content,
   createdAt |-> data.created_at, updatedAt |-> data.updated_at]

toBlogPost(data) ==
  [id |-> data.id, title |-> data.title, slug |-> data.slug,
   authorId |-> data.author_id, published |-> data.published,
   publishedAt |-> data.published_at,
   createdAt |-> data.created_at, updatedAt |-> data.updated_at]

toPageConfig(data) ==
  [id |-> data.id, pageKey |-> data.page_key, title |-> data.title,
   config |-> data.config,
   createdAt |-> data.created_at, updatedAt |-> data.updated_at]

(* if (v !== undefined) updateData[col] = v *)
Col(updates, f, col) == IF Has(updates, f) THEN (col :> updates[f]) ELSE EmptyMap

S_saveTextContent(d, cl, content, t, id, fail) ==
  LET r == DbInsert(d.text_content, "key",
                    [key |-> content.key, content |-> content.content,
                     created_at |-> t, updated_at |-> t], id, fail)
      nd == [d EXCEPT !.text_content = r.tbl]
  IN IF r.error # "none" THEN DRet(nd, "throw", NoVal, <<cl>>, <<r.error>>)
     ELSE DRet(nd, "entity", toTextContent(r.data), <<cl>>, <<r.error>>)

S_getTextContent(d, cl, id, fail) ==
  LET r == DbSelectSingle(d.text_content, "id", id, fail)
  IN IF r.error # "none" THEN DRet(d, "null", NoVal, <<cl>>, <<r.error>>)
     ELSE DRet(d, "entity", toTextContent(r.data), <<cl>>, <<r.error>>)

S_getTextContentByKey(d, cl, key, fail) ==
  LET r == DbSelectSingle(d.text_content, "key", key, fail)
  IN IF r.error # "none" THEN DRet(d, "null", NoVal, <<cl>>, <<r.error>>)
     ELSE DRet(d, "entity", toTextContent(r.data), <<cl>>, <<r.error>>)

S_listTextContent(d, cl, fail) ==
  LET r == DbSelectOrdered(d.text_content, fail)
  IN IF r.error # "none" THEN DRet(d, "throw", NoVal, <<cl>>, <<r.error>>)
     ELSE DRet(d, "list", [i \in 1..Len(r.data) |-> toTextContent(r.data[i])], <<cl>>, <<r.error>>)

(* variant of updateTextContent whose update also rewrites created_at *)
S_updateTextContent_TouchesCreatedAt(d, cl, id, updates, t, fail) ==
  LET updateData == Col(updates, "content", "content") @@ Col(updates, "key", "key")
                    @@ [updated_at |-> t, created_at |-> t]
      r == DbUpdate(d.text_content, "key", id, updateData, fail)
      nd == [d EXCEPT !.text_content = r.tbl]
  IN IF r.error # "none" THEN DRet(nd, "null", NoVal, <<ServiceClient>>, <<r.error>>)
     ELSE DRet(nd, "entity", toTextContent(r.data), <<ServiceClient>>, <<r.error>>)

S_updateTextContent(d, cl, id, updates, t, fail) ==
  LET updateData == Col(updates, "content", "content") @@ Col(updates, "key", "key")
                    @@ [updated_at |-> t]
      r == DbUpdate(d.text_content, "key", id, updateData, fail)
      nd == [d EXCEPT !.text_content = r.tbl]
  IN IF r.error # "none" THEN DRet(nd, "null", NoVal, <<ServiceClient>>, <<r.error>>)
     ELSE DRet(nd, "entity", toTextContent(r.data), <<ServiceClient>>, <<r.error>>)

S_deleteTextContent(d, cl, id, fail) ==
  LET r == DbDelete(d.text_content, id, fail)
  IN DRet([d EXCEPT !.text_content = r.tbl],
          IF r.error = "none" THEN "true" ELSE "false", NoVal,
          <<ServiceClient>>, <<r.error>>)

(* variant of saveBlogPost that answers null on an insert error instead *)
(* of throwing                                                          *)
S_saveBlogPost_SwallowError(d, cl, post, t, id, fail) ==
  LET r == DbInsert(d.blog_posts, "slug",
                    [title |-> post.title, slug |-> post.slug,
                     author_id |-> post.authorId, published |-> post.published,
                     published_at |->
                       IF post.published /\ TimeField(post, "publishedAt") = NoTime
                       THEN t ELSE TimeField(post, "publishedAt"),
                     created_at |-> t, updated_at |-> t], id, fail)
      nd == [d EXCEPT !.blog_posts = r.tbl]
  IN IF r.error # "none" THEN DRet(nd, "null", NoVal, <<ServiceClient>>, <<r.error>>)
     ELSE DRet(nd, "entity", toBlogPost(r.data), <<ServiceClient>>, <<r.error>>)

S_saveBlogPost(d, cl, post, t, id, fail) ==
  LET r == DbInsert(d.blog_posts, "slug",
                    [title |-> post.title, slug |-> post.slug,
                     author_id |-> post.authorId, published |-> post.published,
                     published_at |->
                       IF post.published /\ TimeField(post, "publishedAt") = NoTime
                       THEN t ELSE TimeField(post, "publishedAt"),
                     created_at |-> t, updated_at |-> t], id, fail)
      nd == [d EXCEPT !.blog_posts = r.tbl]
  IN IF r.error # "none" THEN DRet(nd, "throw", NoVal, <<ServiceClient>>, <<r.error>>)
     ELSE DRet(nd, "entity", toBlogPost(r.data), <<ServiceClient>>, <<r.error>>)

S_getBlogPost(d, cl, id, fail) ==
  LET r == DbSelectSingle(d.blog_posts, "id", id, fail)
  IN IF r.error # "none" THEN DRet(d, "null", NoVal, <<cl>>, <<r.error>>)
     ELSE DRet(d, "entity", toBlogPost(r.data), <<cl>>, <<r.error>>)

S_getBlogPostBySlug(d, cl, slug, fail) ==
  LET r == DbSelectSingle(d.blog_posts, "slug", slug, fail)
  IN IF r.error # "none" THEN DRet(d, "null", NoVal, <<cl>>, <<r.error>>)
     ELSE DRet(d, "entity", toBlogPost(r.data), <<cl>>, <<r.error>>)

(* query.eq("published", published) before the ordered select *)
S_listBlogPosts(d, cl, published, fail) ==
  LET tbl == d.blog_posts
      rows == IF published = "undefined" THEN tbl
              ELSE Restrict(tbl, {i \in DOMAIN tbl : tbl[i].published = (published = "true")})
      r == DbSelectOrdered(rows, fail)
  IN IF r.error # "none" THEN DRet(d, "list", <<>>, <<cl>>, <<r.error>>)
     ELSE DRet(d, "list", [i \in 1..Len(r.data) |-> toBlogPost(r.data[i])], <<cl>>, <<r.error>>)

(* fails.lookup: the getBlogPost made before publishing; fails.write: the update *)
S_updateBlogPost(d, cl, id, updates, t, fails) ==
  LET publishing == Has(updates, "published") /\ updates.published
      existing == S_getBlogPost(d, cl, id, fails.lookup)
      stamp == IF publishing /\ existing.out = "entity" /\ existing.val.publishedAt = NoTime
               THEN [published_at |-> t] ELSE EmptyMap
      updateData == stamp @@ Col(updates, "published", "published")
                    @@ Col(updates, "authorId", "author_id")
                    @@ Col(updates, "slug", "slug") @@ Col(updates, "title", "title")
                    @@ [updated_at |-> t]
      r == DbUpdate(d.blog_posts, "slug", id, updateData, fails.write)
      nd == [d EXCEPT !.blog_posts = r.tbl]
      via == (IF publishing THEN existing.via ELSE <<>>) \o <<ServiceClient>>
      errs == (IF publishing THEN existing.errs ELSE <<>>) \o <<r.error>>
  IN IF r.error # "none" THEN DRet(nd, "null", NoVal, via, errs)
     ELSE DRet(nd, "entity", toBlogPost(r.data), via, errs)

S_deleteBlogPost(d, cl, id, fail) ==
  LET r == DbDelete(d.blog_posts, id, fail)
  IN DRet([d EXCEPT !.blog_posts = r.tbl],
          IF r.error = "none" THEN "true" ELSE "false", NoVal,
          <<ServiceClient>>, <<r.error>>)

S_savePageConfig(d, cl, config, t, id, fail) ==
  LET r == DbInsert(d.page_configs, "page_key",
                    [page_key |-> config.pageKey, title |-> config.title,
                     config |-> config.config,
                     created_at |-> t, updated_at |-> t], id, fail)
      nd == [d EXCEPT !.page_configs = r.tbl]
  IN IF r.error # "none" THEN DRet(nd, "throw", NoVal, <<ServiceClient>>, <<r.error>>)
     ELSE DRet(nd, "entity", toPageConfig(r.data), <<ServiceClient>>, <<r.error>>)

S_getPageConfig(d, cl, id, fail) ==
  LET r == DbSelectSingle(d.page_configs, "id", id, fail)
  IN IF r.error # "none" THEN DRet(d, "null", NoVal, <<cl>>, <<r.error>>)
     ELSE DRet(d, "entity", toPageConfig(r.data), <<cl>>, <<r.error>>)

S_getPageConfigByKey(d, cl, pageKey, fail) ==
  LET r == DbSelectSingle(d.page_configs, "page_key", pageKey, fail)
  IN IF r.error # "none" THEN DRet(d, "null", NoVal, <<cl>>, <<r.error>>)
     ELSE DRet(d, "entity", toPageConfig(r.data), <<cl>>, <<r.error>>)

S_listPageConfigs(d, cl, fail) ==
  LET r == DbSelectOrdered(d.page_configs, fail)
  IN IF r.error # "none" THEN DRet(d, "throw", NoVal, <<cl>>, <<r.error>>)
     ELSE DRet(d, "list", [i \in 1..Len(r.data) |-> toPageConfig(r.data[i])], <<cl>>, <<r.error>>)

S_updatePageConfig(d, cl, id, updates, t, fail) ==
  LET updateData == Col(updates, "config", "config") @@ Col(updates, "title", "title")
                    @@ Col(updates, "pageKey", "page_key") @@ [updated_at |-> t]
      r == DbUpdate(d.page_configs, "page_key", id, updateData, fail)
      nd == [d EXCEPT !.page_configs = r.tbl]
  IN IF r.error # "none" THEN DRet(nd, "null", NoVal, <<ServiceClient>>, <<r.error>>)
     ELSE DRet(nd, "entity", toPageConfig(r.data), <<ServiceClient>>, <<r.error>>)

S_deletePageConfig(d, cl, id, fail) ==
  LET r == DbDelete(d.page_configs, id, fail)
  IN DRet([d EXCEPT !.page_configs = r.tbl],
          IF r.error = "none" THEN "true" ELSE "false", NoVal,
          <<ServiceClient>>, <<r.error>>)

---------------------------------------------------------------------------
(* Backend selector, cms.ts.  cfg is `supabase` being non-null. *)

Durable(c) == [variant |-> "Durable", client |-> SupabaseCMSStorage(c)]

Ephemeral == [variant |-> "Ephemeral", client |-> NoClient]

(* variant of the selector that never binds the supplied client *)
getCMSStorage_DefaultOnly(cfg, supabaseClient) ==
  IF cfg THEN Durable(NoClient) ELSE Ephemeral

getCMSStorage(cfg, supabaseClient) ==
  IF cfg /\ supabaseClient # NoClient THEN Durable(supabaseClient)
  ELSE IF cfg THEN Durable(NoClient)
  ELSE Ephemeral

---------------------------------------------------------------------------
(* SpecStorage: the storage contract, both variants under the same calls.  *)
(* Identifiers: both variants generate a fresh one per save; the model     *)
(* gives the two entities of one save call the same number.  An id         *)
(* argument ranges over the ids generated so far and one never generated.  *)

NoCall == [op |-> "none", id |-> 0, arg |-> NoVal]
NoResMem == [out |-> "none", val |-> NoVal]
NoResDb == [out |-> "none", val |-> NoVal, via |-> <<>>, errs |-> <<>>]
NoReq == [phase |-> "idle"]

(* Entities carry the fields the operations distinguish: the natural key, *)
(* one plain field standing for the fields that are only copied (content, *)
(* excerpt, tags, featuredImage, description), authorId, published and    *)
(* the timestamps.                                                        *)
TextInputs == {[key |-> k, content |-> c] : k \in Keys, c \in SavedVals}
TextUpdates == {a @@ b : a \in Opt("key", Keys), b \in Opt("content", UpdateVals)}
BlogInputs == {[title |-> v, slug |-> k, authorId |-> a, published |-> p] :
                 v \in SavedVals, k \in Keys, a \in {"u1"}, p \in BOOLEAN}
BlogUpdates == {a @@ b @@ c : a \in Opt("title", UpdateVals), b \in Opt("slug", Keys),
                              c \in Opt("published", BOOLEAN)}
PageInputs == {[pageKey |-> k, title |-> v, config |-> c] :
                 k \in Keys, v \in SavedVals, c \in SavedVals}
PageUpdates == {a @@ b @@ c : a \in Opt("pageKey", Keys), b \in Opt("title", UpdateVals),
                              c \in Opt("config", UpdateVals)}
Filters == {"undefined", "true", "false"}

IdArgs == 1..nextId

InitStorage ==
  /\ mem = InMemoryCMSStorage
  /\ db = EmptyDatabase
  /\ client \in Clients
  /\ now = 1
  /\ nextId = 1
  /\ call = NoCall
  /\ resMem = NoResMem
  /\ resDb = NoResDb
  /\ configured = TRUE
  /\ req = NoReq
  /\ kind \in Kinds
  /\ san = NoSan
  /\ images = EmptyMap

(* one call, made on both variants *)
Both(c, rm, rd) ==
  /\ call' = c
  /\ mem' = rm.store
  /\ resMem' = [out |-> rm.out, val |-> rm.val]
  /\ db' = rd.store
  /\ resDb' = [out |-> rd.out, val |-> rd.val, via |-> rd.via, errs |-> rd.errs]
  /\ UNCHANGED <<client, configured, req, kind, san, images>>

Tick == now' = now + 1
Read == UNCHANGED <<now, nextId>>

(* a caller obtains its storage from the selector: a new InMemoryCMSStorage *)
(* in the process without remote database, a new SupabaseCMSStorage over    *)
(* the same database in the process with one                                *)
GetCMSStorage ==
  \E c \in Clients \cup {NoClient} :
    /\ getCMSStorage(FALSE, c).variant = "Ephemeral"
    /\ mem' = InMemoryCMSStorage
    /\ client' = getCMSStorage(TRUE, c).client
    /\ call' = [op |-> "getCMSStorage", id |-> 0, arg |-> c]
    /\ resMem' = NoResMem
    /\ resDb' = NoResDb
    /\ UNCHANGED <<db, now, nextId, configured, req, kind, san, images>>

SaveTextContent ==
  /\ kind = "text"
  /\ now <= MaxTime
  /\ \E c \in TextInputs, fail \in BOOLEAN :
       Both([op |-> "saveTextContent", id |-> nextId, arg |-> c],
            Mem_saveTextContent(mem, c, now, nextId),
            S_saveTextContent(db, client, c, now, nextId, fail))
  /\ Tick /\ nextId' = nextId + 1

GetTextContent ==
  /\ kind = "text"
  /\ \E id \in IdArgs, fail \in BOOLEAN :
       Both([op |-> "getTextContent", id |-> id, arg |-> NoVal],
            Mem_getTextContent(mem, id), S_getTextContent(db, client, id, fail))
  /\ Read

GetTextContentByKey ==
  /\ kind = "text"
  /\ \E k \in Keys, fail \in BOOLEAN :
       Both([op |-> "getTextContentByKey", id |-> 0, arg |-> k],
            Mem_getTextContentByKey(mem, k), S_getTextContentByKey(db, client, k, fail))
  /\ Read

ListTextContent ==
  /\ kind = "text"
  /\ \E fail \in BOOLEAN :
       Both([op |-> "listTextContent", id |-> 0, arg |-> NoVal],
            Mem_listTextContent(mem), S_listTextContent(db, client, fail))
  /\ Read

UpdateTextContent ==
  /\ kind = "text"
  /\ now <= MaxTime
  /\ \E id \in IdArgs, u \in TextUpdates, fail \in BOOLEAN :
       Both([op |-> "updateTextContent", id |-> id, arg |-> u],
            Mem_updateTextContent(mem, id, u, now),
            S_updateTextContent(db, client, id, u, now, fail))
  /\ Tick /\ UNCHANGED nextId

DeleteTextContent ==
  /\ kind = "text"
  /\ \E id \in IdArgs, fail \in BOOLEAN :
       Both([op |-> "deleteTextContent", id |-> id, arg |-> NoVal],
            Mem_deleteTextContent(mem, id), S_deleteTextContent(db, client, id, fail))
  /\ Read

SaveBlogPost ==
  /\ kind = "blog"
  /\ now <= MaxTime
  /\ \E p \in BlogInputs, fail \in BOOLEAN :
       Both([op |-> "saveBlogPost", id |-> nextId, arg |-> p],
            Mem_saveBlogPost(mem, p, now, nextId),
            S_saveBlogPost(db, client, p, now, nextId, fail))
  /\ Tick /\ nextId' = nextId + 1

GetBlogPost ==
  /\ kind = "blog"
  /\ \E id \in IdArgs, fail \in BOOLEAN :
       Both([op |-> "getBlogPost", id |-> id, arg |-> NoVal],
            Mem_getBlogPost(mem, id), S_getBlogPost(db, client, id, fail))
  /\ Read

GetBlogPostBySlug ==
  /\ kind = "blog"
  /\ \E k \in Keys, fail \in BOOLEAN :
       Both([op |-> "getBlogPostBySlug", id |-> 0, arg |-> k],
            Mem_getBlogPostBySlug(mem, k), S_getBlogPostBySlug(db, client, k, fail))
  /\ Read

ListBlogPosts ==
  /\ kind = "blog"
  /\ \E f \in Filters, fail \in BOOLEAN :
       Both([op |-> "listBlogPosts", id |-> 0, arg |-> f],
            Mem_listBlogPosts(mem, f), S_listBlogPosts(db, client, f, fail))
  /\ Read

UpdateBlogPost ==
  /\ kind = "blog"
  /\ now <= MaxTime
  /\ \E id \in IdArgs, u \in BlogUpdates, fl \in BOOLEAN, fw \in BOOLEAN :
       Both([op |-> "updateBlogPost", id |-> id, arg |-> u],
            Mem_updateBlogPost(mem, id, u, now),
            S_updateBlogPost(db, client, id, u, now, [lookup |-> fl, write |-> fw]))
  /\ Tick /\ UNCHANGED nextId

DeleteBlogPost ==
  /\ kind = "blog"
  /\ \E id \in IdArgs, fail \in BOOLEAN :
       Both([op |-> "deleteBlogPost", id |-> id, arg |-> NoVal],
            Mem_deleteBlogPost(mem, id), S_deleteBlogPost(db, client, id, fail))
  /\ Read

SavePageConfig ==
  /\ kind = "page"
  /\ now <= MaxTime
  /\ \E c \in PageInputs, fail \in BOOLEAN :
       Both([op |-> "savePageConfig", id |-> nextId, arg |-> c],
            Mem_savePageConfig(mem, c, now, nextId),
            S_savePageConfig(db, client, c, now, nextId, fail))
  /\ Tick /\ nextId' = nextId + 1

GetPageConfig ==
  /\ kind = "page"
  /\ \E id \in IdArgs, fail \in BOOLEAN :
       Both([op |-> "getPageConfig", id |-> id, arg |-> NoVal],
            Mem_getPageConfig(mem, id), S_getPageConfig(db, client, id, fail))
  /\ Read

GetPageConfigByKey ==
  /\ kind = "page"
  /\ \E k \in Keys, fail \in BOOLEAN :
       Both([op |-> "getPageConfigByKey", id |-> 0, arg |-> k],
            Mem_getPageConfigByKey(mem, k), S_getPageConfigByKey(db, client, k, fail))
  /\ Read

ListPageConfigs ==
  /\ kind = "page"
  /\ \E fail \in BOOLEAN :
       Both([op |-> "listPageConfigs", id |-> 0, arg |-> NoVal],
            Mem_listPageConfigs(mem), S_listPageConfigs(db, client, fail))
  /\ Read

UpdatePageConfig ==
  /\ kind = "page"
  /\ now <= MaxTime
  /\ \E id \in IdArgs, u \in PageUpdates, fail \in BOOLEAN :
       Both([op |-> "updatePageConfig", id |-> id, arg |-> u],
            Mem_updatePageConfig(mem, id, u, now),
            S_updatePageConfig(db, client, id, u, now, fail))
  /\ Tick /\ UNCHANGED nextId

DeletePageConfig ==
  /\ kind = "page"
  /\ \E id \in IdArgs, fail \in BOOLEAN :
       Both([op |-> "deletePageConfig", id |-> id, arg |-> NoVal],
            Mem_deletePageConfig(mem, id), S_deletePageConfig(db, client, id, fail))
  /\ Read

NextStorage ==
  \/ GetCMSStorage
  \/ SaveTextContent \/ GetTextContent \/ GetTextContentByKey
  \/ ListTextContent \/ UpdateTextContent \/ DeleteTextContent
  \/ SaveBlogPost \/ GetBlogPost \/ GetBlogPostBySlug
  \/ ListBlogPosts \/ UpdateBlogPost \/ DeleteBlogPost
  \/ SavePageConfig \/ GetPageConfig \/ GetPageConfigByKey
  \/ ListPageConfigs \/ UpdatePageConfig \/ DeletePageConfig

SpecStorage == InitStorage /\ [][NextStorage]_vars

---------------------------------------------------------------------------
(* Strings, validation and sanitization (src/src/supabase.ts)              *)
(*                                                                         *)
(* A JavaScript string is the sequence of its tokens, and the string is    *)
(* their concatenation: each of the characters < > / = " ' : & and the     *)
(* space is a token of its own, a character reference (&amp; &lt; &gt;     *)
(* &quot;) is one token, and every maximal run of other characters is one  *)
(* token, a word.  Words are made of lower-case letters.  A JavaScript     *)
(* value is a record with its typeof; a string value carries its tokens.   *)

Delims == {"<", ">", "/", "=", "\"", "'", " ", ":", "&"}
Entities == {"&amp;", "&lt;", "&gt;", "&quot;"}
Quotes == {"\"", "'"}
IsWord(tok) == tok # "" /\ tok \notin Delims \cup Entities

(* s[i], or the empty string beyond the ends *)
At(s, i) == IF i >= 1 /\ i <= Len(s) THEN s[i] ELSE ""

(* adjacent words are one word *)
RECURSIVE Norm(_)
Norm(s) ==
  IF Len(s) < 2 THEN s
  ELSE IF IsWord(s[1]) /\ IsWord(s[2])
       THEN Norm(<<s[1] \o s[2]>> \o SubSeq(s, 3, Len(s)))
       ELSE <<s[1]>> \o Norm(Tail(s))

(* the string itself *)
RECURSIVE Str(_)
Str(s) == IF s = <<>> THEN "" ELSE s[1] \o Str(Tail(s))

(* value.length *)
StrLen(s) == Len(Str(s))

JsString(s) == [type |-> "string", str |-> s]
Undefined == [type |-> "undefined"]
Null == [type |-> "object", null |-> TRUE]
JsNumber(n) == [type |-> "number", num |-> n]
JsObject == [type |-> "object", null |-> FALSE]

typeof(v) == v.type

(* !v *)
Not(v) ==
  CASE v.type = "string" -> v.str = <<>>
    [] v.type = "number" -> v.num = 0
    [] v.type = "undefined" -> TRUE
    [] v.type = "object" -> v.null

CONTENT_MAX_LENGTH == 10 * 1024 * 1024
KEY_MAX_LENGTH == 255

validateContentLength(content, maxLength) ==
  IF typeof(content) # "string"
  THEN [isValid |-> FALSE, error |-> [rule |-> "type", field |-> "Content"]]
  ELSE IF StrLen(content.str) > maxLength
  THEN [isValid |-> FALSE,
        error |-> [rule |-> "length", field |-> "Content", max |-> maxLength,
                   received |-> StrLen(content.str)]]
  ELSE [isValid |-> TRUE]

(* variant of validateStringLength that rejects a value of maxLength *)
validateStringLength_OffByOne(value, maxLength, fieldName) ==
  IF typeof(value) # "string"
  THEN [isValid |-> FALSE, error |-> [rule |-> "type", field |-> fieldName]]
  ELSE IF StrLen(value.str) >= maxLength
  THEN [isValid |-> FALSE,
        error |-> [rule |-> "length", field |-> fieldName, max |-> maxLength,
                   received |-> StrLen(value.str)]]
  ELSE IF StrLen(value.str) = 0
  THEN [isValid |-> FALSE, error |-> [rule |-> "empty", field |-> fieldName]]
  ELSE [isValid |-> TRUE]

validateStringLength(value, maxLength, fieldName) ==
  IF typeof(value) # "string"
  THEN [isValid |-> FALSE, error |-> [rule |-> "type", field |-> fieldName]]
  ELSE IF StrLen(value.str) > maxLength
  THEN [isValid |-> FALSE,
        error |-> [rule |-> "length", field |-> fieldName, max |-> maxLength,
                   received |-> StrLen(value.str)]]
  ELSE IF StrLen(value.str) = 0
  THEN [isValid |-> FALSE, error |-> [rule |-> "empty", field |-> fieldName]]
  ELSE [isValid |-> TRUE]

---------------------------------------------------------------------------
(* DOMPurify.sanitize (isomorphic-dompurify over jsdom), as far as the two *)
(* configurations of supabase.ts use it: the HTML tokenizer, the tree      *)
(* builder for well-nested markup, the element and attribute filter, and   *)
(* the serializer.  A document is the sequence of its start tags, end tags *)
(* and text tokens in document order.                                      *)

(* least j >= i with s[j] in S, or Len(s) + 1 *)
RECURSIVE Find(_, _, _)
Find(s, i, S) == IF i > Len(s) \/ s[i] \in S THEN i ELSE Find(s, i + 1, S)

(* least j >= i with s[j] not white space, or Len(s) + 1 *)
RECURSIVE SkipWs(_, _)
SkipWs(s, i) == IF i > Len(s) \/ s[i] # " " THEN i ELSE SkipWs(s, i + 1)

(* character references denote their characters *)
Decode(s) ==
  [i \in 1..Len(s) |->
     CASE s[i] = "&amp;" -> "&" [] s[i] = "&lt;" -> "<" [] s[i] = "&gt;" -> ">"
       [] s[i] = "&quot;" -> "\"" [] OTHER -> s[i]]

(* text and attribute values are written with their characters escaped *)
Escape(s, chars) ==
  [i \in 1..Len(s) |->
     IF s[i] \notin chars THEN s[i]
     ELSE CASE s[i] = "&" -> "&amp;" [] s[i] = "<" -> "&lt;" [] s[i] = ">" -> "&gt;"
            [] s[i] = "\"" -> "&quot;"]

VoidTags == {"area", "base", "br", "col", "embed", "hr", "img", "input", "link",
             "meta", "source", "track", "wbr"}
RawTextTags == {"script", "style", "iframe", "xmp", "noembed", "noframes"}

(* the attributes of a tag from position i on: names up to white space,    *)
(* /, > or =, values double-quoted, single-quoted or unquoted; a repeated   *)
(* name is dropped; a tag the input ends in is dropped                     *)
RECURSIVE Attrs(_, _, _)
Attrs(s, i, acc) ==
  LET j == SkipWs(s, i)
      e == Find(s, j + 1, {" ", "/", ">", "="})
      name == Str(SubSeq(s, j, e - 1))
      k == SkipWs(s, e)
      v == SkipWs(s, k + 1)
      q == Find(s, v + 1, {At(s, v)})
      u == Find(s, v, {" ", ">"})
      Add(value) == IF \E x \in 1..Len(acc) : acc[x].name = name THEN acc
                    ELSE Append(acc, [name |-> name, value |-> Decode(value)])
  IN IF j > Len(s) THEN [ok |-> FALSE, attrs |-> acc, next |-> j]
     ELSE IF s[j] = ">" THEN [ok |-> TRUE, attrs |-> acc, next |-> j + 1]
     ELSE IF s[j] = "/" THEN Attrs(s, j + 1, acc)
     ELSE IF At(s, k) # "=" THEN Attrs(s, e, Add(<<>>))
     ELSE IF v > Len(s) THEN [ok |-> FALSE, attrs |-> acc, next |-> v]
     ELSE IF s[v] \in Quotes
          THEN IF q > Len(s) THEN [ok |-> FALSE, attrs |-> acc, next |-> q]
               ELSE Attrs(s, q + 1, Add(SubSeq(s, v + 1, q - 1)))
     ELSE IF s[v] = ">" THEN [ok |-> TRUE, attrs |-> Add(<<>>), next |-> v + 1]
     ELSE Attrs(s, u, Add(SubSeq(s, v, u - 1)))

(* the position of the end tag </name that closes raw text from i on *)
RECURSIVE FindEndTag(_, _, _)
FindEndTag(s, i, name) ==
  IF i > Len(s) THEN i
  ELSE IF s[i] = "<" /\ At(s, i + 1) = "/" /\ At(s, i + 2) = name
          /\ At(s, i + 3) \in {" ", "/", ">"} THEN i
  ELSE FindEndTag(s, i + 1, name)

(* the HTML tokenizer: tag names run up to white space, / or > *)
RECURSIVE Tokenize(_, _)
Tokenize(s, i) ==
  LET open == s[i] = "<" /\ IsWord(At(s, i + 1))
      close == s[i] = "<" /\ At(s, i + 1) = "/"
      n == IF open THEN i + 1 ELSE i + 2
      e == Find(s, n, {" ", "/", ">"})
      name == Str(SubSeq(s, n, e - 1))
      a == Attrs(s, e, <<>>)
      c == FindEndTag(s, a.next, name)
      g == Find(s, i + 2, {">"})
  IN IF i > Len(s) THEN <<>>
     ELSE IF open
     THEN IF ~a.ok THEN <<>>
          ELSE IF name \in RawTextTags
          THEN <<[t |-> "start", name |-> name, attrs |-> a.attrs],
                 [t |-> "text", data |-> SubSeq(s, a.next, c - 1)]>>
               \o Tokenize(s, c)
          ELSE <<[t |-> "start", name |-> name, attrs |-> a.attrs]>>
               \o Tokenize(s, a.next)
     ELSE IF close /\ IsWord(At(s, i + 2))
     THEN IF ~a.ok THEN <<>>
          ELSE <<[t |-> "end", name |-> name]>> \o Tokenize(s, a.next)
     ELSE IF close /\ i + 1 < Len(s)
     THEN Tokenize(s, g + 1)                   \* </> and bogus comments
     ELSE <<[t |-> "text", data |-> Decode(<<s[i]>>)]>> \o Tokenize(s, i + 1)

(* the tree builder: a void element has no content, an end tag closes the  *)
(* open elements up to the one it names and is ignored when it names none, *)
(* and the end of input closes the elements still open                     *)
RECURSIVE TreeBuild(_, _, _)
TreeBuild(ev, i, open) ==
  LET e == ev[i]
      Closing(from) == [x \in 1..(Len(open) - from + 1) |->
                          [t |-> "end", name |-> open[Len(open) - x + 1]]]
      hits == {x \in 1..Len(open) : open[x] = e.name}
      k == CHOOSE x \in hits : \A y \in hits : y <= x
  IN IF i > Len(ev) THEN Closing(1)
     ELSE IF e.t = "text" THEN <<e>> \o TreeBuild(ev, i + 1, open)
     ELSE IF e.t = "start"
     THEN <<e>> \o TreeBuild(ev, i + 1,
                             IF e.name \in VoidTags THEN open ELSE Append(open, e.name))
     ELSE IF hits = {} THEN TreeBuild(ev, i + 1, open)
     ELSE Closing(k) \o TreeBuild(ev, i + 1, SubSeq(open, 1, k - 1))

(* the end tag of the element whose start tag is ev[i] *)
RECURSIVE MatchingEnd(_, _, _)
MatchingEnd(ev, i, depth) ==
  LET d == IF ev[i].t = "start" /\ ev[i].name \notin VoidTags THEN depth + 1
           ELSE IF ev[i].t = "end" THEN depth - 1 ELSE depth
  IN IF d = 0 THEN i ELSE MatchingEnd(ev, i + 1, d)

ALLOWED_TAGS ==
  {"p", "br", "strong", "em", "u", "s", "h1", "h2", "h3", "h4", "h5", "h6", "ul",
   "ol", "li", "blockquote", "a", "img", "code", "pre", "span", "div", "table",
   "thead", "tbody", "tr", "th", "td", "hr"}
ALLOWED_ATTR ==
  {"href", "title", "alt", "src", "width", "height", "class", "id", "target", "rel"}
FORBID_TAGS == {"script", "iframe", "object", "embed", "form", "input", "button", "style"}
FORBID_ATTR == {"onerror", "onload", "onclick", "onmouseover", "onfocus", "onblur",
                "onchange", "onsubmit", "style"}
SANITIZE_CONFIG ==
  [ALLOWED_TAGS |-> ALLOWED_TAGS, ALLOWED_ATTR |-> ALLOWED_ATTR,
   FORBID_TAGS |-> FORBID_TAGS, FORBID_ATTR |-> FORBID_ATTR]
(* { ALLOWED_TAGS: [] }; no element survives, so no attribute is tested *)
PLAIN_TEXT_CONFIG ==
  [ALLOWED_TAGS |-> {}, ALLOWED_ATTR |-> {}, FORBID_TAGS |-> {}, FORBID_ATTR |-> {}]

(* DOMPurify defaults: elements removed with their content, attributes     *)
(* whose value is not a URI, tags that may carry a data: URI                *)
FORBID_CONTENTS ==
  {"annotation-xml", "audio", "colgroup", "desc", "foreignobject", "head", "iframe",
   "math", "mi", "mn", "mo", "ms", "mtext", "noembed", "noframes", "noscript",
   "plaintext", "script", "style", "svg", "template", "thead", "title", "video", "xmp"}
URI_SAFE_ATTRIBUTES ==
  {"alt", "class", "for", "id", "label", "name", "pattern", "placeholder", "role",
   "summary", "title", "value", "style", "xmlns"}
DATA_URI_TAGS == {"image", "img", "video", "audio", "source"}

(* ALLOWED_URI_REGEXP, tested on the value without its white space: an     *)
(* allowed scheme and a colon, or a first character that is no letter, or  *)
(* a run of scheme characters not followed by a colon                      *)
AllowedSchemes ==
  {"http", "https", "ftp", "ftps", "mailto", "tel", "callto", "sms", "cid", "xmpp", "data"}
ALLOWED_URI_REGEXP(value) ==
  LET v == Norm(SelectSeq(value, LAMBDA tok : tok # " "))
  IN /\ v # <<>>
     /\ \/ ~IsWord(v[1])
        \/ v[1] \in AllowedSchemes /\ At(v, 2) = ":"
        \/ At(v, 2) # ":"

isValidAttribute(cfg, lcTag, lcName, value) ==
  /\ lcName \in cfg.ALLOWED_ATTR /\ lcName \notin cfg.FORBID_ATTR
  /\ \/ lcName \in URI_SAFE_ATTRIBUTES
     \/ ALLOWED_URI_REGEXP(value)
     \/ /\ lcName \in {"src", "href"} /\ lcTag # "script"
        /\ At(value, 1) = "data" /\ At(value, 2) = ":" /\ lcTag \in DATA_URI_TAGS
     \/ value = <<>>

(* an element is kept with its valid attributes when its tag is allowed;   *)
(* otherwise it is removed, and its content stays unless the tag forbids   *)
(* it                                                                      *)
RECURSIVE Purify(_, _, _)
Purify(ev, i, cfg) ==
  LET e == ev[i]
      m == IF e.t = "start" /\ e.name \notin VoidTags THEN MatchingEnd(ev, i, 0) ELSE i
      allowed == e.name \in cfg.ALLOWED_TAGS /\ e.name \notin cfg.FORBID_TAGS
      valid == SelectSeq(e.attrs,
                         LAMBDA a : isValidAttribute(cfg, e.name, a.name, a.value))
  IN IF i > Len(ev) THEN <<>>
     ELSE IF e.t = "text" THEN <<e>> \o Purify(ev, i + 1, cfg)
     ELSE IF e.t = "end"
     THEN (IF allowed THEN <<e>> ELSE <<>>) \o Purify(ev, i + 1, cfg)
     ELSE IF allowed THEN <<[e EXCEPT !.attrs = valid]>> \o Purify(ev, i + 1, cfg)
     ELSE IF e.name \in FORBID_CONTENTS THEN Purify(ev, m + 1, cfg)
     ELSE Purify(ev, i + 1, cfg)

(* body.innerHTML *)
RECURSIVE Serialize(_)
Serialize(ev) ==
  LET e == ev[1]
      RECURSIVE attrs(_)
      attrs(al) ==
        IF al = <<>> THEN <<>>
        ELSE <<" ", al[1].name, "=", "\"">> \o Escape(al[1].value, {"&", "\""})
             \o <<"\"">> \o attrs(Tail(al))
  IN IF ev = <<>> THEN <<>>
     ELSE (CASE e.t = "text" -> Escape(e.data, {"&", "<", ">"})
             [] e.t = "start" -> <<"<", e.name>> \o attrs(e.attrs) \o <<">">>
             [] e.t = "end" -> <<"<", "/", e.name, ">">>)
          \o Serialize(Tail(ev))

(* the document a browser builds from a string *)
Parse(s) == TreeBuild(Tokenize(s, 1), 1, <<>>)

(* DOMPurify.sanitize(dirty, cfg): a string without < is returned as it is *)
DOMPurify_sanitize(dirty, cfg) ==
  IF \A i \in 1..Len(dirty) : dirty[i] # "<" THEN dirty
  ELSE Norm(Serialize(Purify(Parse(dirty), 1, cfg)))

---------------------------------------------------------------------------
(* sanitizeHTML: DOMPurify, then seven replace passes over the serialized  *)
(* string.  Every pass is String.prototype.replace with a global regular   *)
(* expression: matches are found from left to right in the original        *)
(* string, and the scan goes on after the end of each match.               *)

DangerousSchemes == {"javascript", "data", "vbscript"}
\* the words that match on\w+
EventHandlerWords == {"onx", "onerror", "onload", "onclick"}

\* .replace(/\s+(href|src)\s*=\s*["']?(javascript|data|vbscript):[^"'\s>]*/gi, "")
RECURSIVE RemoveDangerousUrls(_, _)
RemoveDangerousUrls(s, i) ==
  LET j == SkipWs(s, i)
      k == SkipWs(s, j + 1)
      v == SkipWs(s, k + 1)
      w == IF At(s, v) \in Quotes THEN v + 1 ELSE v
      matched == /\ s[i] = " " /\ At(s, j) \in {"href", "src"} /\ At(s, k) = "="
                 /\ At(s, w) \in DangerousSchemes /\ At(s, w + 1) = ":"
      end == Find(s, w + 2, {"\"", "'", " ", ">"})
  IN IF i > Len(s) THEN <<>>
     ELSE IF matched THEN RemoveDangerousUrls(s, end)
     ELSE <<s[i]>> \o RemoveDangerousUrls(s, i + 1)

\* .replace(/\s+on\w+\s*=\s*["'][^"']*["']/gi, "") and
\* .replace(/\s+style\s*=\s*["'][^"']*["']/gi, "")
RECURSIVE RemoveQuotedAttr(_, _, _)
RemoveQuotedAttr(s, i, names) ==
  LET j == SkipWs(s, i)
      k == SkipWs(s, j + 1)
      v == SkipWs(s, k + 1)
      q == Find(s, v + 1, Quotes)
      matched == /\ s[i] = " " /\ At(s, j) \in names /\ At(s, k) = "="
                 /\ At(s, v) \in Quotes /\ q <= Len(s)
  IN IF i > Len(s) THEN <<>>
     ELSE IF matched THEN RemoveQuotedAttr(s, q + 1, names)
     ELSE <<s[i]>> \o RemoveQuotedAttr(s, i + 1, names)

\* <\/a> at l
IsEndOfAnchor(s, l) ==
  At(s, l) = "<" /\ At(s, l + 1) = "/" /\ At(s, l + 2) = "a" /\ At(s, l + 3) = ">"

\* name\s*= occurs in s[from..to]
HasAttr(s, from, to, name) ==
  \E h \in from..to :
    /\ s[h] = name
    /\ SkipWs(s, h + 1) <= to
    /\ s[SkipWs(s, h + 1)] = "="

\* .replace(/<a\s*[^>]*>\s*([^<]*)<\/a>/gi, ...): an anchor whose content is
\* text is replaced by its content unless /<a[^>]*href\s*=/i matches it; of
\* the tags that DOMPurify lets through only a begins with an a
RECURSIVE UnwrapAnchorsWithoutHref(_, _)
UnwrapAnchorsWithoutHref(s, i) ==
  LET g == Find(s, i + 2, {">"})
      c == SkipWs(s, g + 1)
      l == Find(s, c, {"<"})
      matched == /\ s[i] = "<" /\ At(s, i + 1) = "a" /\ g <= Len(s)
                 /\ IsEndOfAnchor(s, l)
  IN IF i > Len(s) THEN <<>>
     ELSE IF matched
     THEN (IF HasAttr(s, i + 2, g - 1, "href") THEN SubSeq(s, i, l + 3)
           ELSE SubSeq(s, c, l - 1))
          \o UnwrapAnchorsWithoutHref(s, l + 4)
     ELSE <<s[i]>> \o UnwrapAnchorsWithoutHref(s, i + 1)

\* .replace(/<a\s+([^>]*href\s*=\s*["'][^"']*["'][^>]*)>/gi, ...): the start
\* tag of an anchor with a quoted href is removed when the href is dangerous,
\* gets rel="noopener noreferrer" when it has no rel, gets the two tokens
\* appended to its first quoted rel when no rel holds noopener, and is kept
\* as it is otherwise
RECURSIVE AddRel(_, _)
AddRel(s, i) ==
  LET a0 == SkipWs(s, i + 2)
      g1 == Find(s, a0, {">"})
      QuoteEnd(h) ==                   \* the closing quote of NAME = "..." at h
        LET k == SkipWs(s, h + 1)
            v == SkipWs(s, k + 1)
        IN IF At(s, k) = "=" /\ At(s, v) \in Quotes THEN Find(s, v + 1, Quotes)
           ELSE Len(s) + 1
      hrefs == {h \in a0..(g1 - 1) :
                  /\ s[h] = "href" /\ QuoteEnd(h) <= Len(s)
                  /\ Find(s, QuoteEnd(h) + 1, {">"}) <= Len(s)}
      h0 == CHOOSE h \in hrefs : \A x \in hrefs : x <= h
      e == Find(s, QuoteEnd(h0) + 1, {">"})
      matched == /\ s[i] = "<" /\ At(s, i + 1) = "a" /\ At(s, i + 2) = " "
                 /\ hrefs # {}
      attrs == SubSeq(s, a0, e - 1)
      dangerous ==
        \E h \in 1..Len(attrs) :
          LET k == SkipWs(attrs, h + 1)
              v == SkipWs(attrs, k + 1)
              w == IF At(attrs, v) \in Quotes THEN v + 1 ELSE v
          IN /\ attrs[h] = "href" /\ At(attrs, k) = "="
             /\ At(attrs, w) \in DangerousSchemes /\ At(attrs, w + 1) = ":"
      ValueStart(r) == SkipWs(s, SkipWs(s, r + 1) + 1)
      hasNoopener ==
        \E r \in a0..(e - 1) :
          /\ s[r] = "rel" /\ At(s, SkipWs(s, r + 1)) = "="
          /\ At(s, ValueStart(r)) \in Quotes
          /\ \E x \in (ValueStart(r) + 1)..(Find(s, ValueStart(r) + 1, Quotes) - 1) :
               x < e /\ s[x] = "noopener"
      rels == {r \in i..e : s[r] = "rel" /\ QuoteEnd(r) <= e}
      r0 == CHOOSE r \in rels : \A x \in rels : r <= x
      replacement ==
        IF dangerous THEN <<>>
        ELSE IF ~HasAttr(s, a0, e - 1, "rel")
        THEN <<"<", "a", " ">> \o attrs
             \o <<" ", "rel", "=", "\"", "noopener", " ", "noreferrer", "\"", ">">>
        ELSE IF ~hasNoopener /\ rels # {}
        THEN SubSeq(s, i, r0 - 1) \o <<"rel", "=", "\"">>
             \o SubSeq(s, ValueStart(r0) + 1, QuoteEnd(r0) - 1)
             \o <<" ", "noopener", " ", "noreferrer", "\"">>
             \o SubSeq(s, QuoteEnd(r0) + 1, e)
        ELSE SubSeq(s, i, e)
  IN IF i > Len(s) THEN <<>>
     ELSE IF matched THEN replacement \o AddRel(s, e + 1)
     ELSE <<s[i]>> \o AddRel(s, i + 1)

\* .replace(/<a\s*>\s*([^<]*)<\/a>/gi, "$1")
RECURSIVE UnwrapBareAnchors(_, _)
UnwrapBareAnchors(s, i) ==
  LET g == SkipWs(s, i + 2)
      c == SkipWs(s, g + 1)
      l == Find(s, c, {"<"})
      matched == /\ s[i] = "<" /\ At(s, i + 1) = "a" /\ At(s, g) = ">"
                 /\ IsEndOfAnchor(s, l)
  IN IF i > Len(s) THEN <<>>
     ELSE IF matched THEN SubSeq(s, c, l - 1) \o UnwrapBareAnchors(s, l + 4)
     ELSE <<s[i]>> \o UnwrapBareAnchors(s, i + 1)

\* .replace(/<a\s+[^>]*>\s*<\/a>/gi, "")
RECURSIVE RemoveEmptyAnchors(_, _)
RemoveEmptyAnchors(s, i) ==
  LET g == Find(s, i + 2, {">"})
      l == SkipWs(s, g + 1)
      matched == /\ s[i] = "<" /\ At(s, i + 1) = "a" /\ At(s, i + 2) = " "
                 /\ IsEndOfAnchor(s, l)
  IN IF i > Len(s) THEN <<>>
     ELSE IF matched THEN RemoveEmptyAnchors(s, l + 4)
     ELSE <<s[i]>> \o RemoveEmptyAnchors(s, i + 1)

sanitizeHTML(html) ==
  IF Not(html) \/ typeof(html) # "string" THEN <<>>
  ELSE LET purified == DOMPurify_sanitize(html.str, SANITIZE_CONFIG)
           noUrls == Norm(RemoveDangerousUrls(purified, 1))
           noEvents == Norm(RemoveQuotedAttr(noUrls, 1, EventHandlerWords))
           noStyle == Norm(RemoveQuotedAttr(noEvents, 1, {"style"}))
           noHreflessText == Norm(UnwrapAnchorsWithoutHref(noStyle, 1))
           withRel == Norm(AddRel(noHreflessText, 1))
           noBare == Norm(UnwrapBareAnchors(withRel, 1))
       IN Norm(RemoveEmptyAnchors(noBare, 1))

validateAndSanitizeContent(content) ==
  LET lengthValidation == validateContentLength(content, CONTENT_MAX_LENGTH)
  IN IF ~lengthValidation.isValid
     THEN [sanitized |-> <<>>, isValid |-> FALSE, error |-> lengthValidation.error]
     ELSE [sanitized |-> sanitizeHTML(content), isValid |-> TRUE]

(* variant of sanitizePlainText that returns the text as it was given *)
sanitizePlainText_Raw(text) ==
  IF Not(text) \/ typeof(text) # "string" THEN <<>> ELSE text.str

sanitizePlainText(text) ==
  IF Not(text) \/ typeof(text) # "string" THEN <<>>
  ELSE DOMPurify_sanitize(text.str, PLAIN_TEXT_CONFIG)

---------------------------------------------------------------------------
(* The validation and sanitization functions applied to bounded inputs.    *)

MaxAttrs == 2

A5 == "aaaaa"
A25 == A5 \o A5 \o A5 \o A5 \o A5
A125 == A25 \o A25 \o A25 \o A25 \o A25
A246 == A125 \o A25 \o A25 \o A25 \o A25 \o A5 \o A5 \o A5 \o A5 \o "a"
A255 == A125 \o A125 \o A5
A256 == A255 \o "a"

(* maxLength arguments *)
Maxes == {-1, 0, 1, KEY_MAX_LENGTH, CONTENT_MAX_LENGTH}

InputTags == {"a", "img", "p", "b", "script"}
InputAttrs ==
  {[name |-> "href", value |-> <<"http", ":", "/", "/", "x">>],
   [name |-> "href", value |-> <<"javascript", ":", "alert">>],
   [name |-> "href", value |-> <<"data", ":", "x">>],
   [name |-> "src", value |-> <<"x">>],
   [name |-> "src", value |-> <<"data", ":", "x">>],
   [name |-> "rel", value |-> <<"nofollow">>],
   [name |-> "rel", value |-> <<"noopener">>],
   [name |-> "rel", value |-> <<"noopener", " ", "noreferrer">>],
   [name |-> "onerror", value |-> <<"alert">>],
   [name |-> "style", value |-> <<"x">>],
   [name |-> "alt", value |-> <<" ", "onx", "=", "'", "a">>],
   [name |-> "title", value |-> <<"b", " ", "onerror", "=", "alert", " ">>]}
InputChildren == {<<>>, <<"t">>, <<"<", "em", ">", "x", "<", "/", "em", ">">>}

RECURSIVE RenderAttrs(_)
RenderAttrs(al) ==
  IF al = <<>> THEN <<>>
  ELSE <<" ", al[1].name, "=", "\"">> \o al[1].value \o <<"\"">> \o RenderAttrs(Tail(al))

Element(tag, al, child) ==
  <<"<", tag>> \o RenderAttrs(al) \o <<">">>
  \o (IF tag \in VoidTags THEN <<>> ELSE child \o <<"<", "/", tag, ">">>)

MarkupInputs ==
  {Element(tag, al, child) :
     tag \in InputTags,
     al \in UNION {[1..n -> InputAttrs] : n \in 0..MaxAttrs},
     child \in InputChildren}

TextInputStrings ==
  {<<>>, <<"t">>, <<"k">>, <<"a", " ", "&", " ", "b">>, <<"a", " ", "<", " ", "b">>,
   <<"a", " ", ">", " ", "b">>, <<"&lt;", "b", "&gt;">>, <<"&amp;">>,
   <<"<", "b", ">", "<", "/", "b", ">">>,
   <<"<", "b", ">", "&", "<", "/", "b", ">">>,
   <<"x", "<", "b", ">", "&lt;", "i", "&gt;", "<", "/", "b", ">", "y">>,
   <<A255>>, <<A256>>, <<"<", "b", ">", A255, "<", "/", "b", ">">>}

NonStrings == {Undefined, Null, JsObject, JsNumber(0), JsNumber(5)}

SanInputs ==
  {JsString(s) : s \in MarkupInputs \cup TextInputStrings} \cup NonStrings

Applied(op, value, max, out) ==
  [op |-> op, value |-> value, max |-> max, out |-> out, again |-> NoVal]

InitSanitize ==
  /\ mem = InMemoryCMSStorage
  /\ db = EmptyDatabase
  /\ client = NoClient
  /\ now = 1
  /\ nextId = 1
  /\ call = NoCall
  /\ resMem = NoResMem
  /\ resDb = NoResDb
  /\ configured = FALSE
  /\ req = NoReq
  /\ kind = "text"
  /\ images = EmptyMap
  /\ san \in {Applied("input", v, 0, NoVal) : v \in SanInputs}

Apply(r) ==
  /\ san.op = "input"
  /\ san' = r
  /\ UNCHANGED <<mem, db, client, now, nextId, call, resMem, resDb, configured, req, kind, images>>

ValidateStringLength ==
  \E max \in Maxes :
    Apply(Applied("validateStringLength", san.value, max,
                  validateStringLength(san.value, max, "Key")))

ValidateContentLength ==
  \E max \in Maxes :
    Apply(Applied("validateContentLength", san.value, max,
                  validateContentLength(san.value, max)))

ValidateAndSanitizeContent ==
  Apply(Applied("validateAndSanitizeContent", san.value, CONTENT_MAX_LENGTH,
                validateAndSanitizeContent(san.value)))

SanitizeHTML == Apply(Applied("sanitizeHTML", san.value, 0, sanitizeHTML(san.value)))

SanitizePlainText ==
  Apply(Applied("sanitizePlainText", san.value, 0, sanitizePlainText(san.value)))

(* the function applied to its own result *)
SanitizeHTMLAgain ==
  /\ san.op = "sanitizeHTML"
  /\ san' = [san EXCEPT !.op = "sanitizeHTML twice",
                        !.again = sanitizeHTML(JsString(san.out))]
  /\ UNCHANGED <<mem, db, client, now, nextId, call, resMem, resDb, configured, req, kind, images>>

SanitizePlainTextAgain ==
  /\ san.op = "sanitizePlainText"
  /\ san' = [san EXCEPT !.op = "sanitizePlainText twice",
                        !.again = sanitizePlainText(JsString(san.out))]
  /\ UNCHANGED <<mem, db, client, now, nextId, call, resMem, resDb, configured, req, kind, images>>

NextSanitize ==
  \/ ValidateStringLength \/ ValidateContentLength \/ ValidateAndSanitizeContent
  \/ SanitizeHTML \/ SanitizeHTMLAgain
  \/ SanitizePlainText \/ SanitizePlainTextAgain

SpecSanitize == InitSanitize /\ [][NextSanitize]_vars

---------------------------------------------------------------------------
(* Spec: HTTP requests.  A request is received, app.derive and the         *)
(* cmsPlugin's derive build its context, requireAuth runs before the       *)
(* handler of a guarded route, then the handler runs.  The routes are the  *)
(* by-id GET (unguarded) and DELETE (guarded) routes of the three kinds.   *)
(* The remote database outlives the process: it starts empty or holding    *)
(* one entity of the kind.                                                 *)

supabase == IF configured THEN ServiceClient ELSE NoClient

createAuthenticatedClient(accessToken) ==
  IF ~configured THEN NoClient ELSE "user:" \o accessToken

(* supabase.auth.getUser(token): the provider verifies tok1 as user u1 and *)
(* tok2 as user u2 (data.user.id, data.user.email); a call may also return *)
(* an error or throw.  data.user.user_metadata is what the account holder  *)
(* stored with the provider: nothing, a display name, or a key named id    *)
(* (holding a user id, or the empty string).                               *)
NoUser == [id |-> "", email |-> ""]
UserOf(token) ==
  IF token = "tok1" THEN [id |-> "u1", email |-> "u1@example.com"]
  ELSE [id |-> "u2", email |-> "u2@example.com"]
ValidTokens == {"tok1", "tok2"}
GetUserOutcomes(token) ==
  IF token \in ValidTokens THEN {"user", "error", "throw"} ELSE {"error", "throw"}
Metadata == {EmptyMap, [name |-> "n1"], [id |-> "u2"], [id |-> ""]}

(* the Authorization header: absent, or the lower-cased first seven        *)
(* characters of the trimmed value and the trimmed rest                    *)
NoHeader == [present |-> FALSE, prefix |-> "", token |-> ""]
Headers ==
  {NoHeader} \cup {[present |-> TRUE, prefix |-> p, token |-> t] :
                     p \in {"bearer ", "basic x"},
                     t \in {"", "bad"} \cup ValidTokens}

AuthMe == [method |-> "GET", kind |-> "auth"]
PostText == [method |-> "POST", kind |-> "text"]
Routes ==
  {[method |-> m, kind |-> k] : m \in {"GET", "DELETE"}, k \in Kinds} \cup {AuthMe}
Guarded(route) == route.method \in {"DELETE", "POST", "PUT"}

(* the body of POST /cms/text, two strings by the route's schema: a plain  *)
(* key, an empty key, a key of 256 letters, a key that is an empty         *)
(* element, and a key of 255 characters that is an empty element, 246      *)
(* letters and two ampersands                                              *)
MaxPosts == 1
BodyKeys ==
  {<<"k2">>, <<>>, <<A256>>, <<"<", "b", ">", "<", "/", "b", ">">>,
   <<"<", "b", ">", "<", "/", "b", ">", A246, "&", "&">>}
Bodies == {[key |-> k, content |-> <<"<", "b", ">", "v1", "<", "/", "b", ">">>] : k \in BodyKeys}

Or(a, b) == IF a = NoClient THEN b ELSE a

callsProvider(h) ==
  h.present /\ h.prefix = "bearer " /\ h.token # "" /\ supabase # NoClient

(* variant of the derivation that hands out the token-scoped client even  *)
(* when the provider returned an error                                    *)
derive_ClientOnError(h, outcome, md) ==
  LET unauthenticated == [user |-> NoUser, supabaseClient |-> supabase]
  IN IF ~h.present THEN unauthenticated
     ELSE IF h.prefix # "bearer " THEN unauthenticated
     ELSE IF h.token = "" \/ supabase = NoClient THEN unauthenticated
     ELSE IF outcome = "throw" THEN unauthenticated
     ELSE IF outcome = "error"
     THEN [user |-> NoUser, supabaseClient |-> createAuthenticatedClient(h.token)]
     ELSE [user |-> Spread(UserOf(h.token), md),
           supabaseClient |-> Or(createAuthenticatedClient(h.token), supabase)]

(* user: {id: data.user.id, email: data.user.email, ...user_metadata} *)
derive(h, outcome, md) ==
  LET unauthenticated == [user |-> NoUser, supabaseClient |-> supabase]
  IN IF ~h.present THEN unauthenticated
     ELSE IF h.prefix # "bearer " THEN unauthenticated
     ELSE IF h.token = "" \/ supabase = NoClient THEN unauthenticated
     ELSE IF outcome = "throw" THEN unauthenticated
     ELSE IF outcome = "error" THEN unauthenticated
     ELSE [user |-> Spread(UserOf(h.token), md),
           supabaseClient |-> Or(createAuthenticatedClient(h.token), supabase)]

(* variant of the guard that trusts any non-empty bearer token *)
requireAuth_Unverified(user, h, outcome) ==
  IF user # NoUser THEN [pass |-> TRUE, status |-> 0]
  ELSE IF supabase = NoClient THEN [pass |-> FALSE, status |-> 503]
  ELSE IF ~h.present THEN [pass |-> FALSE, status |-> 401]
  ELSE IF h.prefix # "bearer " THEN [pass |-> FALSE, status |-> 401]
  ELSE IF h.token = "" THEN [pass |-> FALSE, status |-> 401]
  ELSE [pass |-> TRUE, status |-> 0]

(* variant of the guard that looks at the header before the configuration *)
requireAuth_HeaderFirst(user, h, outcome) ==
  IF user # NoUser THEN [pass |-> TRUE, status |-> 0]
  ELSE IF ~h.present THEN [pass |-> FALSE, status |-> 401]
  ELSE IF h.prefix # "bearer " THEN [pass |-> FALSE, status |-> 401]
  ELSE IF h.token = "" THEN [pass |-> FALSE, status |-> 401]
  ELSE IF supabase = NoClient THEN [pass |-> FALSE, status |-> 503]
  ELSE IF outcome = "throw" THEN [pass |-> FALSE, status |-> 500]
  ELSE IF outcome = "error" THEN [pass |-> FALSE, status |-> 401]
  ELSE [pass |-> TRUE, status |-> 0]

(* requireAuth: pass (returns nothing), or the status of the response it   *)
(* returns; a throwing provider call is not caught                         *)
requireAuth(user, h, outcome) ==
  IF user # NoUser THEN [pass |-> TRUE, status |-> 0]
  ELSE IF supabase = NoClient THEN [pass |-> FALSE, status |-> 503]
  ELSE IF ~h.present THEN [pass |-> FALSE, status |-> 401]
  ELSE IF h.prefix # "bearer " THEN [pass |-> FALSE, status |-> 401]
  ELSE IF h.token = "" THEN [pass |-> FALSE, status |-> 401]
  ELSE IF outcome = "throw" THEN [pass |-> FALSE, status |-> 500]
  ELSE IF outcome = "error" THEN [pass |-> FALSE, status |-> 401]
  ELSE [pass |-> TRUE, status |-> 0]

InitialRows ==
  [text |-> S_saveTextContent(EmptyDatabase, ServiceClient,
                              [key |-> "k1", content |-> "v1"], 1, 1, FALSE).store,
   blog |-> S_saveBlogPost(EmptyDatabase, ServiceClient,
                           [title |-> "v1", slug |-> "k1", authorId |-> "u1",
                            published |-> FALSE], 1, 1, FALSE).store,
   page |-> S_savePageConfig(EmptyDatabase, ServiceClient,
                             [pageKey |-> "k1", title |-> "v1", config |-> "v1"],
                             1, 1, FALSE).store]

Init ==
  /\ configured \in BOOLEAN
  /\ kind \in Kinds
  /\ mem = InMemoryCMSStorage
  /\ db \in {EmptyDatabase, InitialRows[kind]}
  /\ client = NoClient
  /\ now = 2
  /\ nextId = 2
  /\ call = NoCall
  /\ resMem = NoResMem
  /\ resDb = NoResDb
  /\ req = NoReq
  /\ san = NoSan
  /\ images = EmptyMap

Receive ==
  /\ req.phase \in {"idle", "done"}
  /\ \E route \in Routes, h \in Headers, id \in 1..nextId :
       /\ route.kind \in {kind, "auth"}
       /\ req' = [phase |-> "received", route |-> route, headers |-> h, id |-> id,
                  user |-> NoUser, supabaseClient |-> NoClient,
                  derived |-> "none", metadata |-> EmptyMap, verified |-> "none",
                  status |-> 0, ran |-> FALSE, storage |-> Ephemeral]
  /\ UNCHANGED <<mem, db, client, now, nextId, call, resMem, resDb, configured, kind, san, images>>

Derive ==
  /\ req.phase = "received"
  /\ \E outcome \in (IF callsProvider(req.headers)
                     THEN GetUserOutcomes(req.headers.token) ELSE {"none"}) :
     \E md \in (IF outcome = "user" THEN Metadata ELSE {EmptyMap}) :
       LET ctx == derive(req.headers, outcome, md)
       IN req' = [req EXCEPT !.phase = "derived", !.user = ctx.user,
                             !.supabaseClient = ctx.supabaseClient,
                             !.derived = outcome, !.metadata = md]
  /\ UNCHANGED <<mem, db, client, now, nextId, call, resMem, resDb, configured, kind, san, images>>

(* cmsPlugin.derive: user || null, supabaseClient || null *)
CmsDerive ==
  /\ req.phase = "derived"
  /\ req.route.kind # "auth"
  /\ req' = [req EXCEPT !.phase = "context"]
  /\ UNCHANGED <<mem, db, client, now, nextId, call, resMem, resDb, configured, kind, san, images>>

(* beforeHandle of a guarded route: after the cmsPlugin's derive on a CMS  *)
(* route, after app.derive on a route of the app                          *)
RequireAuth ==
  /\ req.phase \in {"context", "derived"}
  /\ req.phase = (IF req.route.kind \in Kinds THEN "context" ELSE "derived")
  /\ Guarded(req.route)
  /\ \E outcome \in (IF req.user = NoUser /\ callsProvider(req.headers)
                     THEN GetUserOutcomes(req.headers.token) ELSE {"none"}) :
       LET g == requireAuth(req.user, req.headers, outcome)
       IN req' = [req EXCEPT !.phase = IF g.pass THEN "admitted" ELSE "done",
                             !.status = g.status, !.verified = outcome]
  /\ UNCHANGED <<mem, db, client, now, nextId, call, resMem, resDb, configured, kind, san, images>>

(* a by-id handler: storage = getCMSStorage(supabaseClient), one storage   *)
(* call (rm on a new InMemoryCMSStorage, rd[fail] on the database), 404    *)
(* when the result is falsy                                                *)
Storage == getCMSStorage(configured, req.supabaseClient)

Handle(route, op, rm, rd) ==
  /\ req.phase = (IF Guarded(route) THEN "admitted" ELSE "context")
  /\ req.route = route
  /\ LET respond(out) ==
           [req EXCEPT !.phase = "done", !.ran = TRUE, !.storage = Storage,
                       !.status = IF out \in {"null", "false"} THEN 404 ELSE 200]
     IN /\ call' = [op |-> op, id |-> req.id, arg |-> NoVal]
        /\ client' = Storage.client
        /\ IF Storage.variant = "Durable"
           THEN \E fail \in BOOLEAN :
                  /\ db' = rd[fail].store
                  /\ resDb' = [out |-> rd[fail].out, val |-> rd[fail].val,
                               via |-> rd[fail].via, errs |-> rd[fail].errs]
                  /\ req' = respond(rd[fail].out)
                  /\ UNCHANGED <<mem, resMem>>
           ELSE /\ mem' = rm.store
                /\ resMem' = [out |-> rm.out, val |-> rm.val]
                /\ req' = respond(rm.out)
                /\ UNCHANGED <<db, resDb>>
  /\ UNCHANGED <<now, nextId, configured, kind, san, images>>

GetTextRoute ==
  Handle([method |-> "GET", kind |-> "text"], "getTextContent",
         Mem_getTextContent(InMemoryCMSStorage, req.id),
         [fail \in BOOLEAN |-> S_getTextContent(db, Storage.client, req.id, fail)])

DeleteTextRoute ==
  Handle([method |-> "DELETE", kind |-> "text"], "deleteTextContent",
         Mem_deleteTextContent(InMemoryCMSStorage, req.id),
         [fail \in BOOLEAN |-> S_deleteTextContent(db, Storage.client, req.id, fail)])

GetBlogRoute ==
  Handle([method |-> "GET", kind |-> "blog"], "getBlogPost",
         Mem_getBlogPost(InMemoryCMSStorage, req.id),
         [fail \in BOOLEAN |-> S_getBlogPost(db, Storage.client, req.id, fail)])

DeleteBlogRoute ==
  Handle([method |-> "DELETE", kind |-> "blog"], "deleteBlogPost",
         Mem_deleteBlogPost(InMemoryCMSStorage, req.id),
         [fail \in BOOLEAN |-> S_deleteBlogPost(db, Storage.client, req.id, fail)])

GetPageConfigRoute ==
  Handle([method |-> "GET", kind |-> "page"], "getPageConfig",
         Mem_getPageConfig(InMemoryCMSStorage, req.id),
         [fail \in BOOLEAN |-> S_getPageConfig(db, Storage.client, req.id, fail)])

DeletePageConfigRoute ==
  Handle([method |-> "DELETE", kind |-> "page"], "deletePageConfig",
         Mem_deletePageConfig(InMemoryCMSStorage, req.id),
         [fail \in BOOLEAN |-> S_deletePageConfig(db, Storage.client, req.id, fail)])

ReceivePost ==
  /\ req.phase \in {"idle", "done"}
  /\ \E h \in Headers, body \in Bodies :
       req' = [phase |-> "received", route |-> PostText, headers |-> h, id |-> 0,
               body |-> body, user |-> NoUser, supabaseClient |-> NoClient,
               derived |-> "none", metadata |-> EmptyMap, verified |-> "none",
               status |-> 0, ran |-> FALSE, storage |-> Ephemeral, error |-> NoVal]
  /\ UNCHANGED <<mem, db, client, now, nextId, call, resMem, resDb, configured, kind, san, images>>

(* POST /cms/text: 400 when the key or the content is not valid, else the *)
(* sanitized key and content are saved with the storage chosen for the    *)
(* request; a save that throws is answered 500                            *)
PostTextHandler(keyValidation, contentValidation, content) ==
  /\ req.phase = "admitted"
  /\ req.route = PostText
  /\ nextId < 2 + MaxPosts
  /\ LET rm == Mem_saveTextContent(InMemoryCMSStorage, content, now, nextId)
         respond(out) ==
           [req EXCEPT !.phase = "done", !.ran = TRUE, !.storage = Storage,
                       !.status = IF out = "throw" THEN 500 ELSE 200]
     IN IF ~keyValidation.isValid \/ ~contentValidation.isValid
        THEN /\ req' = [req EXCEPT !.phase = "done", !.ran = TRUE, !.status = 400,
                                   !.error = IF ~keyValidation.isValid
                                             THEN keyValidation.error
                                             ELSE contentValidation.error]
             /\ UNCHANGED <<mem, db, client, call, resMem, resDb, now, nextId>>
        ELSE /\ call' = [op |-> "saveTextContent", id |-> nextId, arg |-> content]
             /\ client' = Storage.client
             /\ now' = now + 1 /\ nextId' = nextId + 1
             /\ IF Storage.variant = "Durable"
                THEN \E fail \in BOOLEAN :
                       LET rd == S_saveTextContent(db, Storage.client, content, now,
                                                   nextId, fail)
                       IN /\ db' = rd.store
                          /\ resDb' = [out |-> rd.out, val |-> rd.val,
                                       via |-> rd.via, errs |-> rd.errs]
                          /\ req' = respond(rd.out)
                          /\ UNCHANGED <<mem, resMem>>
                ELSE /\ mem' = rm.store
                     /\ resMem' = [out |-> rm.out, val |-> rm.val]
                     /\ req' = respond(rm.out)
                     /\ UNCHANGED <<db, resDb>>
  /\ UNCHANGED <<configured, kind, san, images>>

PostTextRoute ==
  /\ req.phase = "admitted"
  /\ req.route = PostText
  /\ \E contentValidation \in {validateAndSanitizeContent(JsString(req.body.content))},
        key \in {Str(sanitizePlainText(JsString(req.body.key)))} :
       PostTextHandler(
         validateStringLength(JsString(req.body.key), KEY_MAX_LENGTH, "Key"),
         contentValidation,
         [key |-> key, content |-> Str(contentValidation.sanitized)])

(* GET /auth/me: no beforeHandle; answers {user: user || null} *)
AuthMeRoute ==
  /\ req.phase = "derived"
  /\ req.route = AuthMe
  /\ req' = [req EXCEPT !.phase = "done", !.ran = TRUE, !.status = 200]
  /\ UNCHANGED <<mem, db, client, now, nextId, call, resMem, resDb, configured, kind, san, images>>

Next ==
  \/ Receive \/ Derive \/ CmsDerive \/ RequireAuth \/ AuthMeRoute
  \/ GetTextRoute \/ DeleteTextRoute
  \/ GetBlogRoute \/ DeleteBlogRoute
  \/ GetPageConfigRoute \/ DeletePageConfigRoute

Spec == Init /\ [][Next]_vars

(* SpecCreate: requests to POST /cms/text *)
InitCreate == Init /\ kind = "text"

NextCreate == ReceivePost \/ Derive \/ CmsDerive \/ RequireAuth \/ PostTextRoute

SpecCreate == InitCreate /\ [][NextCreate]_vars

---------------------------------------------------------------------------
(* SpecImage: requests to POST /image/upload and GET /image/:filename of   *)
(* the app (unnamed/part_001).  The routes of the app are outside the      *)
(* cmsPlugin: their context is the one of app.derive.                      *)

MaxUploads == 2

Upload == [method |-> "POST", kind |-> "image"]
GetImage == [method |-> "GET", kind |-> "image"]

FileNames == {"a.png", "b.png"}
Files == {[name |-> n, data |-> "bytes"] : n \in FileNames}

(* `${Date.now()}-${file.name}` *)
Filename(t, file) == ToString(t) \o "-" \o file.name

NoFile == [name |-> "", data |-> ""]

ReceiveImage ==
  /\ req.phase \in {"idle", "done"}
  /\ \E h \in Headers, route \in {Upload, GetImage}, file \in Files, t \in 2..now :
       /\ route = Upload => t = now
       /\ req' = [phase |-> "received", route |-> route, headers |-> h, id |-> 0,
                  body |-> [file |-> IF route = Upload THEN file ELSE NoFile],
                  params |-> [filename |-> IF route = GetImage THEN Filename(t, file)
                                           ELSE ""],
                  user |-> NoUser, supabaseClient |-> NoClient,
                  derived |-> "none", metadata |-> EmptyMap, verified |-> "none",
                  status |-> 0, ran |-> FALSE, storage |-> Ephemeral]
  /\ UNCHANGED <<mem, db, client, now, nextId, call, resMem, resDb, configured, kind, san,
                 images>>

(* POST /image/upload: the file is saved under a generated filename *)
UploadRoute ==
  /\ req.phase = "admitted"
  /\ req.route = Upload
  /\ now < 2 + MaxUploads
  /\ LET filename == Filename(now, req.body.file)
     IN /\ images' = MapSet(images, filename, req.body.file.data)
        /\ resMem' = [out |-> "Image uploaded successfully", val |-> filename]
        /\ call' = [op |-> "storage.save", id |-> 0, arg |-> filename]
  /\ now' = now + 1
  /\ req' = [req EXCEPT !.phase = "done", !.ran = TRUE, !.status = 200]
  /\ UNCHANGED <<mem, db, client, nextId, resDb, configured, kind, san>>

(* GET /image/:filename: no beforeHandle; 404 when storage.get is null *)
GetImageRoute ==
  /\ req.phase = "derived"
  /\ req.route = GetImage
  /\ LET found == req.params.filename \in DOMAIN images
     IN /\ req' = [req EXCEPT !.phase = "done", !.ran = TRUE,
                              !.status = IF found THEN 200 ELSE 404]
        /\ resMem' = [out |-> IF found THEN "image" ELSE "Image not found",
                      val |-> IF found THEN images[req.params.filename] ELSE NoVal]
        /\ call' = [op |-> "storage.get", id |-> 0, arg |-> req.params.filename]
  /\ UNCHANGED <<mem, db, client, now, nextId, resDb, configured, kind, san, images>>

InitImage == Init /\ kind = "text" /\ db = EmptyDatabase

NextImage == ReceiveImage \/ Derive \/ RequireAuth \/ UploadRoute \/ GetImageRoute

SpecImage == InitImage /\ [][NextImage]_vars

---------------------------------------------------------------------------
(* SpecWrite: requests to the create and update routes of the CMS          *)
(* (src/src/cms.ts): POST /cms/text, PUT /cms/text/:id, POST /cms/blog,     *)
(* PUT /cms/blog/:id, POST /cms/page-config, PUT /cms/page-config/:id.      *)
(* A body is the object the route's schema admitted: a required string is  *)
(* a string, an optional field is a value of its type or undefined.        *)

MaxWrites == 1

TITLE_MAX_LENGTH == 500
EXCERPT_MAX_LENGTH == 1000
SLUG_MAX_LENGTH == 255

A512 == A256 \o A256
A1024 == A512 \o A512

JsBoolean(b) == [type |-> "boolean", bool |-> b]
JsArray(items) == [type |-> "array", items |-> items]

Provided(v) == typeof(v) # "undefined"

PutText == [method |-> "PUT", kind |-> "text"]
PostBlog == [method |-> "POST", kind |-> "blog"]
PutBlog == [method |-> "PUT", kind |-> "blog"]
PostPageConfig == [method |-> "POST", kind |-> "page"]
PutPageConfig == [method |-> "PUT", kind |-> "page"]
WriteRoutes == {PostText, PutText, PostBlog, PutBlog, PostPageConfig, PutPageConfig}

(* strings submitted in bodies *)
Plain == <<"v2">>
Para == <<"<", "p", ">", "v2", "<", "/", "p", ">">>
Empty == <<>>

PutTextBodies ==
  {[key |-> k, content |-> JsString(Para)] :
     k \in {Undefined, JsString(Para), JsString(Empty), JsString(<<A256>>)}}
  \cup {[key |-> JsString(<<"k2">>), content |-> Undefined],
        [key |-> Undefined, content |-> Undefined]}

BlogBody == [title |-> JsString(Plain), slug |-> JsString(<<"k2">>),
             content |-> JsString(Para), excerpt |-> Undefined,
             published |-> Undefined, tags |-> Undefined, featuredImage |-> Undefined]

PostBlogBodies ==
  {[BlogBody EXCEPT !.title = JsString(t), !.slug = JsString(s)] :
     t \in {Para, Empty, <<A512>>}, s \in {<<"k2">>, Empty, <<A256>>}}
  \cup {[BlogBody EXCEPT !.slug = JsString(s), !.excerpt = JsString(e)] :
          s \in {<<"k2">>, Empty}, e \in {Para, Empty, <<A1024>>}}
  \cup {[BlogBody EXCEPT !.published = JsBoolean(p)] : p \in BOOLEAN}
  \cup {[BlogBody EXCEPT !.tags = JsArray(<<JsString(Para)>>),
                         !.featuredImage = JsString(f)] : f \in {Para, Empty}}

NoBlogUpdate == [title |-> Undefined, slug |-> Undefined, content |-> Undefined,
                 excerpt |-> Undefined, published |-> Undefined, tags |-> Undefined,
                 featuredImage |-> Undefined]

PutBlogBodies ==
  {[NoBlogUpdate EXCEPT !.title = t, !.slug = s] :
     t \in {Undefined, JsString(Para), JsString(Empty)},
     s \in {Undefined, JsString(<<A256>>)}}
  \cup {[NoBlogUpdate EXCEPT !.content = JsString(Para), !.excerpt = JsString(e)] :
          e \in {Para, Empty}}
  \cup {[NoBlogUpdate EXCEPT !.published = JsBoolean(p)] : p \in BOOLEAN}
  \cup {[NoBlogUpdate EXCEPT !.tags = JsArray(<<JsString(Para)>>),
                             !.featuredImage = JsString(Para)]}

(* config: t.Record(t.String(), t.Any()) *)
ConfigPayload == [type |-> "object", null |-> FALSE, hero |-> "<p>v2</p>"]

PostPageConfigBodies ==
  {[pageKey |-> JsString(k), title |-> JsString(t), description |-> d,
    config |-> ConfigPayload] :
     k \in {<<"k2">>, Empty}, t \in {Para, <<A512>>},
     d \in {Undefined, JsString(Para), JsString(Empty)}}

PutPageConfigBodies ==
  {[pageKey |-> k, title |-> t, description |-> d, config |-> c] :
     k \in {Undefined, JsString(<<A256>>)}, t \in {Undefined, JsString(Para), JsString(Empty)},
     d \in {Undefined}, c \in {Undefined, ConfigPayload}}
  \cup {[pageKey |-> JsString(<<"k2">>), title |-> Undefined, description |-> JsString(Para),
         config |-> Undefined]}

WriteBodies(route) ==
  CASE route = PostText -> Bodies
    [] route = PutText -> PutTextBodies
    [] route = PostBlog -> PostBlogBodies
    [] route = PutBlog -> PutBlogBodies
    [] route = PostPageConfig -> PostPageConfigBodies
    [] route = PutPageConfig -> PutPageConfigBodies

WriteHeaders == {h \in Headers : ~h.present \/ (h.prefix = "bearer " /\ h.token \in {"bad", "tok1"})}

ReceiveWrite ==
  /\ req.phase \in {"idle", "done"}
  /\ now < 2 + MaxWrites
  /\ \E route \in WriteRoutes, h \in WriteHeaders, id \in 1..2 :
     \E body \in WriteBodies(route) :
       /\ route.kind = kind
       /\ route.method = "POST" => id = 1
       /\ req' = [phase |-> "received", route |-> route, headers |-> h,
                  id |-> IF route.method = "POST" THEN 0 ELSE id,
                  body |-> body, user |-> NoUser, supabaseClient |-> NoClient,
                  derived |-> "none", metadata |-> EmptyMap, verified |-> "none",
                  status |-> 0, ran |-> FALSE, storage |-> Ephemeral, error |-> NoVal]
  /\ UNCHANGED <<mem, db, client, now, nextId, call, resMem, resDb, configured, kind, san,
                 images>>

(* if (body.f !== undefined) { validate } *)
IfProvided(v, validation) == IF Provided(v) THEN validation ELSE [isValid |-> TRUE]

(* the field, when a string was handed over for it *)
OptField(f, v, str) == IF Provided(v) THEN (f :> str) ELSE EmptyMap

(* the strings of a body: its string fields and the items of its tags *)
StringsOf(body) ==
  {body[f].str : f \in {g \in DOMAIN body : typeof(body[g]) = "string"}}
  \cup (IF Has(body, "tags") /\ Provided(body.tags)
        THEN {body.tags.items[i].str : i \in DOMAIN body.tags.items} ELSE {})

(* sanitizePlainText on each of the strings *)
PlainTexts(strings) == [s \in strings |-> Str(sanitizePlainText(JsString(s)))]

(* body.tags?.map((tag) => sanitizePlainText(tag)) *)
Tags(v, plain) ==
  IF Provided(v) THEN ("tags" :> [i \in DOMAIN v.items |-> plain[v.items[i].str]])
  ELSE EmptyMap

(* body.featuredImage ? sanitizePlainText(body.featuredImage) : undefined *)
FeaturedImage(v, plain) ==
  IF Provided(v) /\ ~Not(v) THEN ("featuredImage" :> plain[v.str]) ELSE EmptyMap

(* a create or update handler: the validations in the order the handler    *)
(* makes them, the first failing one answered 400 with its error; else one *)
(* storage call with arg (rm on a new InMemoryCMSStorage, rd[f] on the     *)
(* database for each way f the backend may fail); a save that throws is    *)
(* answered 500, an update that returns null 404                          *)
WriteHandler(route, checks, op, arg, rm, rd) ==
  /\ req.phase = "admitted"
  /\ req.route = route
  /\ now < 2 + MaxWrites
  /\ LET failing == {i \in DOMAIN checks : ~checks[i].isValid}
         first == CHOOSE i \in failing : \A j \in failing : i <= j
         respond(out) ==
           [req EXCEPT !.phase = "done", !.ran = TRUE, !.storage = Storage,
                       !.status = IF out = "throw" THEN 500
                                  ELSE IF out = "null" THEN 404 ELSE 200]
     IN IF failing # {}
        THEN /\ req' = [req EXCEPT !.phase = "done", !.ran = TRUE, !.status = 400,
                                   !.error = checks[first].error]
             /\ UNCHANGED <<mem, db, client, call, resMem, resDb, now, nextId>>
        ELSE /\ call' = [op |-> op, id |-> IF route.method = "POST" THEN nextId ELSE req.id,
                         arg |-> arg]
             /\ client' = Storage.client
             /\ now' = now + 1
             /\ nextId' = IF route.method = "POST" THEN nextId + 1 ELSE nextId
             /\ IF Storage.variant = "Durable"
                THEN \E f \in DOMAIN rd :
                       /\ db' = rd[f].store
                       /\ resDb' = [out |-> rd[f].out, val |-> rd[f].val,
                                    via |-> rd[f].via, errs |-> rd[f].errs]
                       /\ req' = respond(rd[f].out)
                       /\ UNCHANGED <<mem, resMem>>
                ELSE /\ mem' = rm.store
                     /\ resMem' = [out |-> rm.out, val |-> rm.val]
                     /\ req' = respond(rm.out)
                     /\ UNCHANGED <<db, resDb>>
  /\ UNCHANGED <<configured, kind, san, images>>

(* PUT /cms/text/:id; plain holds sanitizePlainText of the body's strings, *)
(* contentValidation is validateAndSanitizeContent(body.content)           *)
PutTextChecks(contentValidation) ==
  <<IfProvided(req.body.key, validateStringLength(req.body.key, KEY_MAX_LENGTH, "Key")),
    IfProvided(req.body.content, contentValidation)>>

PutTextData(plain, contentValidation) ==
  OptField("key", req.body.key, plain[req.body.key.str])
  @@ OptField("content", req.body.content, Str(contentValidation.sanitized))

PutTextRoute ==
  /\ req.phase = "admitted"
  /\ req.route = PutText
  /\ \E plain \in {PlainTexts(StringsOf(req.body))},
        contentValidation \in {validateAndSanitizeContent(req.body.content)} :
     \E checks \in {PutTextChecks(contentValidation)},
        updateData \in {PutTextData(plain, contentValidation)} :
       WriteHandler(PutText, checks, "updateTextContent", updateData,
         Mem_updateTextContent(InMemoryCMSStorage, req.id, updateData, now),
         [fail \in BOOLEAN |->
            S_updateTextContent(db, Storage.client, req.id, updateData, now, fail)])

(* POST /cms/blog; variant that validates the slug before the title *)
PostBlogChecks_SlugFirst(contentValidation) ==
  <<validateStringLength(req.body.slug, SLUG_MAX_LENGTH, "Slug"),
    validateStringLength(req.body.title, TITLE_MAX_LENGTH, "Title"),
    contentValidation,
    IfProvided(req.body.excerpt,
               validateStringLength(req.body.excerpt, EXCERPT_MAX_LENGTH, "Excerpt"))>>

PostBlogChecks(contentValidation) ==
  <<validateStringLength(req.body.title, TITLE_MAX_LENGTH, "Title"),
    validateStringLength(req.body.slug, SLUG_MAX_LENGTH, "Slug"),
    contentValidation,
    IfProvided(req.body.excerpt,
               validateStringLength(req.body.excerpt, EXCERPT_MAX_LENGTH, "Excerpt"))>>

(* user?.id || "unknown" *)
authorId(user) ==
  IF user = NoUser THEN "unknown" ELSE IF user.id = "" THEN "unknown" ELSE user.id

PostBlogPost(plain, contentValidation) ==
  [title |-> plain[req.body.title.str], slug |-> plain[req.body.slug.str],
   content |-> Str(contentValidation.sanitized), authorId |-> authorId(req.user),
   published |-> IF Provided(req.body.published) THEN req.body.published.bool ELSE FALSE]
  @@ OptField("excerpt", req.body.excerpt, plain[req.body.excerpt.str])
  @@ Tags(req.body.tags, plain) @@ FeaturedImage(req.body.featuredImage, plain)

PostBlogRoute ==
  /\ req.phase = "admitted"
  /\ req.route = PostBlog
  /\ \E plain \in {PlainTexts(StringsOf(req.body))},
        contentValidation \in {validateAndSanitizeContent(req.body.content)} :
     \E checks \in {PostBlogChecks(contentValidation)},
        post \in {PostBlogPost(plain, contentValidation)} :
       WriteHandler(PostBlog, checks, "saveBlogPost", post,
         Mem_saveBlogPost(InMemoryCMSStorage, post, now, nextId),
         [fail \in BOOLEAN |->
            S_saveBlogPost(db, Storage.client, post, now, nextId, fail)])

(* PUT /cms/blog/:id *)
PutBlogChecks(contentValidation) ==
  <<IfProvided(req.body.title, validateStringLength(req.body.title, TITLE_MAX_LENGTH, "Title")),
    IfProvided(req.body.slug, validateStringLength(req.body.slug, SLUG_MAX_LENGTH, "Slug")),
    IfProvided(req.body.content, contentValidation),
    IfProvided(req.body.excerpt,
               validateStringLength(req.body.excerpt, EXCERPT_MAX_LENGTH, "Excerpt"))>>

PutBlogData(plain, contentValidation) ==
  OptField("title", req.body.title, plain[req.body.title.str])
  @@ OptField("slug", req.body.slug, plain[req.body.slug.str])
  @@ OptField("content", req.body.content, Str(contentValidation.sanitized))
  @@ OptField("excerpt", req.body.excerpt, plain[req.body.excerpt.str])
  @@ (IF Provided(req.body.published) THEN [published |-> req.body.published.bool]
      ELSE EmptyMap)
  @@ Tags(req.body.tags, plain) @@ FeaturedImage(req.body.featuredImage, plain)

LookupAndWrite == {[lookup |-> l, write |-> w] : l \in BOOLEAN, w \in BOOLEAN}

PutBlogRoute ==
  /\ req.phase = "admitted"
  /\ req.route = PutBlog
  /\ \E plain \in {PlainTexts(StringsOf(req.body))},
        contentValidation \in {validateAndSanitizeContent(req.body.content)} :
     \E checks \in {PutBlogChecks(contentValidation)},
        updateData \in {PutBlogData(plain, contentValidation)} :
       WriteHandler(PutBlog, checks, "updateBlogPost", updateData,
         Mem_updateBlogPost(InMemoryCMSStorage, req.id, updateData, now),
         [fails \in LookupAndWrite |->
            S_updateBlogPost(db, Storage.client, req.id, updateData, now, fails)])

(* POST /cms/page-config *)
PostPageConfigChecks ==
  <<validateStringLength(req.body.pageKey, KEY_MAX_LENGTH, "Page key"),
    validateStringLength(req.body.title, TITLE_MAX_LENGTH, "Title"),
    IfProvided(req.body.description,
               validateStringLength(req.body.description, EXCERPT_MAX_LENGTH, "Description"))>>

PostPageConfigData(plain) ==
  [pageKey |-> plain[req.body.pageKey.str], title |-> plain[req.body.title.str],
   config |-> req.body.config]
  @@ OptField("description", req.body.description, plain[req.body.description.str])

PostPageConfigRoute ==
  /\ req.phase = "admitted"
  /\ req.route = PostPageConfig
  /\ \E plain \in {PlainTexts(StringsOf(req.body))} :
     \E checks \in {PostPageConfigChecks}, config \in {PostPageConfigData(plain)} :
       WriteHandler(PostPageConfig, checks, "savePageConfig", config,
         Mem_savePageConfig(InMemoryCMSStorage, config, now, nextId),
         [fail \in BOOLEAN |->
            S_savePageConfig(db, Storage.client, config, now, nextId, fail)])

(* PUT /cms/page-config/:id *)
PutPageConfigChecks ==
  <<IfProvided(req.body.pageKey,
               validateStringLength(req.body.pageKey, KEY_MAX_LENGTH, "Page key")),
    IfProvided(req.body.title, validateStringLength(req.body.title, TITLE_MAX_LENGTH, "Title")),
    IfProvided(req.body.description,
               validateStringLength(req.body.description, EXCERPT_MAX_LENGTH, "Description"))>>

PutPageConfigData(plain) ==
  OptField("pageKey", req.body.pageKey, plain[req.body.pageKey.str])
  @@ OptField("title", req.body.title, plain[req.body.title.str])
  @@ OptField("description", req.body.description, plain[req.body.description.str])
  @@ (IF Provided(req.body.config) THEN [config |-> req.body.config] ELSE EmptyMap)

PutPageConfigRoute ==
  /\ req.phase = "admitted"
  /\ req.route = PutPageConfig
  /\ \E plain \in {PlainTexts(StringsOf(req.body))} :
     \E checks \in {PutPageConfigChecks}, updateData \in {PutPageConfigData(plain)} :
       WriteHandler(PutPageConfig, checks, "updatePageConfig", updateData,
         Mem_updatePageConfig(InMemoryCMSStorage, req.id, updateData, now),
         [fail \in BOOLEAN |->
            S_updatePageConfig(db, Storage.client, req.id, updateData, now, fail)])

InitWrite == Init /\ db = InitialRows[kind]

NextWrite ==
  \/ ReceiveWrite \/ Derive \/ CmsDerive \/ RequireAuth
  \/ PostTextRoute \/ PutTextRoute
  \/ PostBlogRoute \/ PutBlogRoute
  \/ PostPageConfigRoute \/ PutPageConfigRoute

SpecWrite == InitWrite /\ [][NextWrite]_vars

---------------------------------------------------------------------------
(* SpecConcurrent: two requests call blog-post operations of one storage   *)
(* object at the same time.  JavaScript runs one block of code at a time:  *)
(* a call runs from the entry of the async method to its first await, and  *)
(* a continuation runs from the await it resumes at to the next one.  A    *)
(* block is one step, and the blocks of the two calls interleave in every  *)
(* order.  A remote statement is executed by the database in the block     *)
(* that receives its reply.  In this specification req holds the variant   *)
(* the two requests work on and their calls, by request.                   *)

Procs == {1, 2}

BlogOps == {"saveBlogPost", "updateBlogPost", "deleteBlogPost"}

Publishing(updates) == Has(updates, "published") /\ updates.published

(* variant of the InMemoryCMSStorage methods in which updateBlogPost      *)
(* awaits between reading the existing post and writing the merged one    *)
InMemoryBlocks_AwaitInUpdate(op) ==
  IF op = "updateBlogPost" THEN <<"read", "write">> ELSE <<"body">>

(* the blocks of an InMemoryCMSStorage method: no body holds an await *)
InMemoryBlocks(op) == <<"body">>

(* the blocks of a SupabaseCMSStorage method: updateBlogPost awaits        *)
(* getBlogPost when the partial publishes, then awaits the update; save    *)
(* and delete await one statement                                          *)
SupabaseBlocks(op, updates) ==
  IF op # "updateBlogPost" THEN <<"body">>
  ELSE IF Publishing(updates) THEN <<"entry", "lookup", "write">>
  ELSE <<"entry", "write">>

Blocks(variant, op, arg) ==
  IF variant = "Ephemeral" THEN InMemoryBlocks(op) ELSE SupabaseBlocks(op, arg)

IdleTask == [op |-> "none", id |-> 0, arg |-> NoVal, blocks |-> <<>>, pc |-> 0,
             local |-> EmptyMap, out |-> "none", val |-> NoVal]

Done(task) == task.op # "none" /\ task.pc = Len(task.blocks)

(* what a block leaves: the stores, the clock, the id generator, the       *)
(* locals of the call and, from the last block, what the call returns      *)
Eff(m, d, t, nid, local, out, val) ==
  [mem |-> m, db |-> d, now |-> t, nextId |-> nid, local |-> local,
   out |-> out, val |-> val]

Mem_blogCall(m, op, id, arg, t, nid) ==
  CASE op = "saveBlogPost" -> Mem_saveBlogPost(m, arg, t, nid)
    [] op = "updateBlogPost" -> Mem_updateBlogPost(m, id, arg, t)
    [] op = "deleteBlogPost" -> Mem_deleteBlogPost(m, id)

Ticks(op) == IF op = "deleteBlogPost" THEN 0 ELSE 1

Fresh(op) == IF op = "saveBlogPost" THEN 1 ELSE 0

(* a block of an InMemoryCMSStorage method.  read: const existing =        *)
(* this.blogPosts.get(id); write: the merge of existing and the partial is *)
(* set under the id; body: the whole method                                *)
InMemoryBlock(name, task, m, d, t, nid) ==
  CASE name = "body" ->
         LET r == Mem_blogCall(m, task.op, task.id, task.arg, t, nid)
         IN Eff(r.store, d, t + Ticks(task.op), nid + Fresh(task.op), task.local,
                r.out, r.val)
    [] name = "read" ->
         Eff(m, d, t, nid, MemGet(m.blogPosts, task.id), "none", NoVal)
    [] name = "write" ->
         IF task.local.out = "null" THEN Eff(m, d, t, nid, task.local, "null", NoVal)
         ELSE LET held == [m EXCEPT !.blogPosts = MapSet(@, task.id, task.local.val)]
                  r == Mem_updateBlogPost(held, task.id, task.arg, t)
              IN Eff([m EXCEPT !.blogPosts = MapSet(@, task.id, r.val)], d, t + 1, nid,
                     task.local, r.out, r.val)

(* a block of a SupabaseCMSStorage method.  entry: updateData is begun     *)
(* with updated_at; lookup: getBlogPost answers and published_at is added  *)
(* when the post it returned has none; write: the update is executed       *)
SupabaseBlock(name, task, m, d, t, nid, fail) ==
  CASE name = "body" /\ task.op = "saveBlogPost" ->
         LET r == S_saveBlogPost(d, ServiceClient, task.arg, t, nid, fail)
         IN Eff(m, r.store, t + 1, nid + 1, task.local, r.out, r.val)
    [] name = "body" /\ task.op = "deleteBlogPost" ->
         LET r == S_deleteBlogPost(d, ServiceClient, task.id, fail)
         IN Eff(m, r.store, t, nid, task.local, r.out, r.val)
    [] name = "entry" ->
         Eff(m, d, t + 1, nid, [updated_at |-> t], "none", NoVal)
    [] name = "lookup" ->
         LET existing == S_getBlogPost(d, ServiceClient, task.id, fail)
             first == existing.out = "entity" /\ existing.val.publishedAt = NoTime
         IN IF first
            THEN Eff(m, d, t + 1, nid, [published_at |-> t] @@ task.local, "none", NoVal)
            ELSE Eff(m, d, t, nid, task.local, "none", NoVal)
    [] name = "write" ->
         LET updates == task.arg
             updateData == task.local @@ Col(updates, "published", "published")
                           @@ Col(updates, "authorId", "author_id")
                           @@ Col(updates, "slug", "slug")
                           @@ Col(updates, "title", "title")
             r == DbUpdate(d.blog_posts, "slug", task.id, updateData, fail)
             nd == [d EXCEPT !.blog_posts = r.tbl]
         IN IF r.error # "none" THEN Eff(m, nd, t, nid, task.local, "null", NoVal)
            ELSE Eff(m, nd, t, nid, task.local, "entity", toBlogPost(r.data))

Block(variant, name, task, m, d, t, nid, fail) ==
  IF variant = "Ephemeral" THEN InMemoryBlock(name, task, m, d, t, nid)
  ELSE SupabaseBlock(name, task, m, d, t, nid, fail)

(* the post both variants hold when the requests arrive *)
FirstPost == [title |-> "v1", slug |-> "k1", authorId |-> "u1", published |-> FALSE]

InitConcurrent ==
  /\ configured = TRUE
  /\ kind = "blog"
  /\ mem = Mem_saveBlogPost(InMemoryCMSStorage, FirstPost, 1, 1).store
  /\ db = InitialRows.blog
  /\ client = ServiceClient
  /\ now = 2
  /\ nextId = 2
  /\ call = NoCall
  /\ resMem = NoResMem
  /\ resDb = NoResDb
  /\ san = NoSan
  /\ images = EmptyMap
  /\ \E v \in {"Ephemeral", "Durable"} :
       req = [phase |-> "concurrent", variant |-> v, tasks |-> [p \in Procs |-> IdleTask]]

(* task p runs its next block *)
RunBlock(p, task) ==
  \E fail \in (IF req.variant = "Durable" THEN BOOLEAN ELSE {FALSE}) :
    LET e == Block(req.variant, task.blocks[task.pc + 1], task, mem, db, now, nextId, fail)
    IN /\ mem' = e.mem
       /\ db' = e.db
       /\ now' = e.now
       /\ nextId' = e.nextId
       /\ req' = [req EXCEPT !.tasks[p] =
                    [task EXCEPT !.pc = @ + 1, !.local = e.local,
                                 !.out = e.out, !.val = e.val]]
       /\ UNCHANGED <<client, call, resMem, resDb, configured, kind, san, images>>

(* a request calls a method: the call runs up to the first await *)
Call ==
  /\ req.phase = "concurrent"
  /\ \E p \in Procs, op \in BlogOps, id \in 1..2 :
     \E arg \in (CASE op = "saveBlogPost" -> BlogInputs
                   [] op = "updateBlogPost" -> BlogUpdates
                   [] op = "deleteBlogPost" -> {NoVal}) :
       /\ req.tasks[p].op = "none"
       /\ op = "saveBlogPost" => id = 1
       /\ RunBlock(p, [IdleTask EXCEPT !.op = op, !.arg = arg,
                                       !.id = IF op = "saveBlogPost" THEN 0 ELSE id,
                                       !.blocks = Blocks(req.variant, op, arg)])

(* a call resumes after an await *)
Continue ==
  /\ req.phase = "concurrent"
  /\ \E p \in Procs :
       /\ req.tasks[p].op # "none"
       /\ ~Done(req.tasks[p])
       /\ RunBlock(p, req.tasks[p])

NextConcurrent == Call \/ Continue

SpecConcurrent == InitConcurrent /\ [][NextConcurrent]_vars

---------------------------------------------------------------------------
(* Views used by the properties *)

(* the entities of the behaviour's kind held by each variant, by id *)
MemEntities(m) ==
  CASE kind = "text" -> m.textContent
    [] kind = "blog" -> m.blogPosts
    [] kind = "page" -> m.pageConfigs

DbEntities(d) ==
  CASE kind = "text" -> [i \in DOMAIN d.text_content |-> toTextContent(d.text_content[i])]
    [] kind = "blog" -> [i \in DOMAIN d.blog_posts |-> toBlogPost(d.blog_posts[i])]
    [] kind = "page" -> [i \in DOMAIN d.page_configs |-> toPageConfig(d.page_configs[i])]

NaturalKey == CASE kind = "text" -> "key" [] kind = "blog" -> "slug" [] kind = "page" -> "pageKey"

SaveOps == {"saveTextContent", "saveBlogPost", "savePageConfig"}
UpdateOps == {"updateTextContent", "updateBlogPost", "updatePageConfig"}
DeleteOps == {"deleteTextContent", "deleteBlogPost", "deletePageConfig"}

BackendFailed(r) == \E i \in DOMAIN r.errs : r.errs[i] = "backend"

---------------------------------------------------------------------------
(* C1: publishedAt of a BlogPost is unset while the post has never been    *)
(* published, is set to the current time by the save that creates it       *)
(* published or by the first update that sets published = true, and is     *)
(* never changed or cleared afterwards, on either variant.                 *)
(* Stated per step: a post created by the step has publishedAt = now       *)
(* exactly when it is created published; a post whose publishedAt is set   *)
(* keeps it; a post whose publishedAt is unset gets now exactly when the   *)
(* step is an update of it that sets published = true.                     *)

PublishOnceStep(old, new, c, r, t) ==
  \A id \in DOMAIN new :
    IF id \notin DOMAIN old
    THEN new[id].publishedAt = (IF new[id].published THEN t ELSE NoTime)
    ELSE IF old[id].publishedAt # NoTime
    THEN new[id].publishedAt = old[id].publishedAt
    ELSE new[id].publishedAt =
           (IF c.op = "updateBlogPost" /\ c.id = id /\ r.out = "entity"
               /\ Has(c.arg, "published") /\ c.arg.published
            THEN t ELSE NoTime)

C1_PublishOnce ==
  [][kind = "blog" =>
       /\ PublishOnceStep(MemEntities(mem), MemEntities(mem'), call', resMem', now)
       /\ PublishOnceStep(DbEntities(db), DbEntities(db'), call', resDb', now)]_vars

---------------------------------------------------------------------------
(* C2: without a remote database, an entity saved into the Ephemeral       *)
(* storage stays there for the lifetime of the process: every later step   *)
(* still holds it unless the step is the delete of that id.                *)

C2_EphemeralKeepsEntities ==
  [][\A id \in DOMAIN MemEntities(mem) :
       \/ id \in DOMAIN MemEntities(mem')
       \/ (call'.op \in DeleteOps /\ call'.id = id)]_vars

---------------------------------------------------------------------------
(* C3: every remote call of a Durable instance bound to a request's        *)
(* authenticated credential is issued through that credential.             *)

C3_BoundCredentialUsed ==
  client = UserClient => \A i \in DOMAIN resDb.via : resDb.via[i] = client

---------------------------------------------------------------------------
(* C5: delete(id) returns true exactly when an entity with that id existed *)
(* and was removed, false when none existed, and never throws, on both     *)
(* variants and for every kind.                                            *)

DeleteContract(old, new, c, r) ==
  /\ r.out \in {"true", "false"}
  /\ (r.out = "true") <=> (c.id \in DOMAIN old /\ c.id \notin DOMAIN new)

C5_DeleteReturn ==
  [][call'.op \in DeleteOps =>
       /\ DeleteContract(MemEntities(mem), MemEntities(mem'), call', resMem')
       /\ DeleteContract(DbEntities(db), DbEntities(db'), call', resDb')]_vars

---------------------------------------------------------------------------
(* C6: a Durable operation whose backend call failed raises; not-found     *)
(* (null) is returned only when no row matched.                            *)

C6_BackendFailureRaises ==
  /\ BackendFailed(resDb) => resDb.out = "throw"
  /\ resDb.out = "null" => resDb.errs[Len(resDb.errs)] = "norows"

---------------------------------------------------------------------------
(* C7: on the Durable variant a save whose natural key (key, slug or       *)
(* pageKey) is already held by a stored entity of the same kind throws     *)
(* and stores nothing.                                                     *)

KeyTaken(d, c) ==
  \E id \in DOMAIN DbEntities(d) : DbEntities(d)[id][NaturalKey] = c.arg[NaturalKey]

C7_DuplicateKeyRejected ==
  [][call'.op \in SaveOps /\ KeyTaken(db, call') =>
       resDb'.out = "throw" /\ db' = db]_vars

C7_Witness ==
  /\ call.op \in SaveOps
  /\ KeyTaken(db, call)
  /\ resDb.out = "throw"
  /\ resDb.errs = <<"conflict">>

---------------------------------------------------------------------------
(* C8: update(id, partial).                                                *)

Expected(e, u, t) ==
  [f \in DOMAIN e |-> IF f \in DOMAIN u THEN u[f]
                      ELSE IF f = "updatedAt" THEN t ELSE e[f]]

(* an applied update changes, in the entity it names, the supplied fields  *)
(* and updatedAt and nothing else outside `exempt`, and returns the entity *)
(* as stored; an update that answers not-found changes nothing, and an     *)
(* update of a missing id answers not-found                                *)
UpdateFrame(old, new, c, r, t, exempt) ==
  IF r.out = "entity"
  THEN /\ c.id \in DOMAIN old
       /\ DOMAIN new = DOMAIN old
       /\ \A id \in DOMAIN old \ {c.id} : new[id] = old[id]
       /\ DOMAIN new[c.id] = DOMAIN old[c.id]
       /\ \A f \in DOMAIN old[c.id] \ exempt :
            new[c.id][f] = Expected(old[c.id], c.arg, t)[f]
       /\ r.val = new[c.id]
  ELSE /\ r.out = "null"
       /\ new = old

(* publishedAt keeps its value, or goes from unset to the time of the      *)
(* update when the partial sets published = true                           *)
PublishedAtFrame(old, new, c, r, t) ==
  r.out = "entity" /\ "publishedAt" \in DOMAIN old[c.id] =>
    \/ new[c.id].publishedAt = old[c.id].publishedAt
    \/ /\ old[c.id].publishedAt = NoTime
       /\ Has(c.arg, "published") /\ c.arg.published
       /\ new[c.id].publishedAt = t

---------------------------------------------------------------------------
(* C9: the two variants are observably equivalent: from stores holding the *)
(* same entities, the same call, made while the remote database does not   *)
(* fail, gives the same result (lists compared as collections) and leaves  *)
(* the stores holding the same entities.                                   *)

Range(q) == {q[i] : i \in DOMAIN q}

SameOutcome(rm, rd) ==
  /\ rm.out = rd.out
  /\ IF rm.out = "list"
     THEN Len(rm.val) = Len(rd.val) /\ Range(rm.val) = Range(rd.val)
     ELSE rm.val = rd.val

C9_VariantsEquivalent ==
  [][/\ call'.op # "getCMSStorage"
     /\ MemEntities(mem) = DbEntities(db)
     /\ ~BackendFailed(resDb')
     => /\ SameOutcome(resMem', resDb')
        /\ MemEntities(mem') = DbEntities(db')]_vars

---------------------------------------------------------------------------
(* C4: for every CMS request whose handler ran, the storage it used was    *)
(* chosen                                                                  *)
(* by priority: remote database configured and an authenticated credential *)
(* derived -> Durable bound to that credential; configured and no          *)
(* authenticated credential -> Durable on the default client; not          *)
(* configured -> Ephemeral; Ephemeral is never chosen while configured.    *)

C4_SelectorPriority ==
  req.phase = "done" /\ req.ran /\ req.route.kind \in Kinds =>
    /\ req.storage =
         IF ~configured THEN Ephemeral
         ELSE IF req.user # NoUser
         THEN [variant |-> "Durable", client |-> "user:" \o req.headers.token]
         ELSE [variant |-> "Durable", client |-> ServiceClient]
    /\ configured => req.storage.variant = "Durable"
    /\ client = req.storage.client

C4_Witness ==
  /\ req.phase = "done" /\ req.ran
  /\ req.user = UserOf("tok1")
  /\ req.storage = [variant |-> "Durable", client |-> UserClient]
  /\ resDb.via = <<UserClient>>

---------------------------------------------------------------------------
(* C10: the guard.                                                         *)

HeaderRejected(h) == ~h.present \/ h.prefix # "bearer " \/ h.token = ""

Rejected(r, status) == r.phase = "done" /\ r.status = status /\ ~r.ran

(* the handler of a guarded route runs, and storage changes, only in the   *)
(* step after the guard admitted the request                               *)
HandlerOnlyAfterGuard ==
  (db' # db \/ mem' # mem \/ (req'.phase = "done" /\ req'.ran)) =>
     \/ req.phase = "admitted"
     \/ req.phase \in {"derived", "context"} /\ ~Guarded(req.route)

---------------------------------------------------------------------------
(* C11: GET /auth/me is protected: a request for which no identity was     *)
(* derived (no valid token) is rejected, not answered.                     *)

C11_AuthMeProtected ==
  req.phase = "done" /\ req.route = AuthMe /\ req.user = NoUser =>
    ~req.ran /\ req.status \in {401, 503}

---------------------------------------------------------------------------
(* C12: derivation never fails a request and does not distinguish causes:  *)
(* with no header, a non-Bearer header, an empty token, a token the        *)
(* provider rejects or a provider call that throws, the request goes on    *)
(* with the same unauthenticated context (no user, the default client).    *)

C12_DerivationUniform ==
  [][req.phase = "received" =>
       /\ req'.phase = "derived" /\ req'.status = 0
       /\ (HeaderRejected(req.headers) \/ req'.derived \in {"error", "throw"}) =>
            req'.user = NoUser /\ req'.supabaseClient = supabase]_vars

C12_Witness ==
  /\ req.phase = "derived"
  /\ req.derived = "error"
  /\ req.user = NoUser /\ req.supabaseClient = ServiceClient

---------------------------------------------------------------------------
(* C13: for a Bearer token the provider verifies, the derived user has the *)
(* id and the email the provider reports for that token, whatever metadata *)
(* is merged in, and the storage credential is scoped to that token.       *)

C13_DerivedIdentity ==
  req.phase # "idle" /\ req.derived = "user" =>
    /\ req.user.id = UserOf(req.headers.token).id
    /\ req.user.email = UserOf(req.headers.token).email
    /\ req.supabaseClient = "user:" \o req.headers.token

---------------------------------------------------------------------------
(* C20: timestamps.  The clock read by new Date() is taken to be           *)
(* non-decreasing.                                                         *)

(* an entity that appears has createdAt = updatedAt; an entity that stays  *)
(* keeps its createdAt and its updatedAt does not decrease                 *)
TimestampStep(old, new) ==
  /\ \A id \in DOMAIN new \ DOMAIN old : new[id].createdAt = new[id].updatedAt
  /\ \A id \in DOMAIN new \cap DOMAIN old :
       /\ new[id].createdAt = old[id].createdAt
       /\ new[id].updatedAt >= old[id].updatedAt
  /\ \A id \in DOMAIN new : new[id].createdAt <= new[id].updatedAt

(* a save that returns an entity stored it under an id not in use *)
SaveFresh(old, new, r) ==
  r.out = "entity" =>
    /\ r.val.id \notin DOMAIN old
    /\ r.val.id \in DOMAIN new /\ new[r.val.id] = r.val
    /\ r.val.createdAt = r.val.updatedAt

---------------------------------------------------------------------------
(* Properties of validation and sanitization *)

Length(v) == StrLen(v.str)

(* C14: validateStringLength checks type, then length, then emptiness and  *)
(* reports the first failing rule: a non-string gets the type error, a     *)
(* string longer than max the length error with max and its length, a      *)
(* string of length 0 the emptiness error, and every other string is       *)
(* valid, so it is valid exactly for strings of length 1..max;             *)
(* validateContentLength applies the type and length rules only and        *)
(* accepts the empty string.                                               *)
C14_ValidateLength ==
  /\ san.op = "validateStringLength" =>
       /\ san.out.isValid <=>
            typeof(san.value) = "string" /\ Length(san.value) \in 1..san.max
       /\ typeof(san.value) # "string" => san.out.error.rule = "type"
       /\ typeof(san.value) = "string" /\ Length(san.value) > san.max =>
            /\ san.out.error.rule = "length"
            /\ san.out.error.max = san.max
            /\ san.out.error.received = Length(san.value)
       /\ typeof(san.value) = "string" /\ Length(san.value) = 0 /\ san.max >= 0 =>
            san.out.error.rule = "empty"
  /\ san.op = "validateContentLength" =>
       /\ san.out.isValid <=>
            typeof(san.value) = "string" /\ Length(san.value) <= san.max
       /\ typeof(san.value) # "string" => san.out.error.rule = "type"
       /\ typeof(san.value) = "string" /\ Length(san.value) > san.max =>
            /\ san.out.error.rule = "length"
            /\ san.out.error.max = san.max
            /\ san.out.error.received = Length(san.value)

C14_Witness ==
  /\ san.op = "validateStringLength"
  /\ san.value = JsString(<<A255>>) /\ Length(san.value) = 255
  /\ san.max = KEY_MAX_LENGTH
  /\ san.out.isValid

(* C15: sanitizeHTML is idempotent: applied to its own result it returns   *)
(* that result.                                                            *)
C15_RichTextIdempotent ==
  san.op = "sanitizeHTML twice" => san.again = san.out

(* a document has no element *)
NoElements(doc) == \A i \in 1..Len(doc) : doc[i].t = "text"

(* C16: sanitizePlainText returns the empty string for an empty or         *)
(* non-string value, its result holds no element, and applied to its own   *)
(* result it returns that result.                                          *)
C16_PlainText ==
  /\ san.op \in {"sanitizePlainText", "sanitizePlainText twice"} =>
       /\ typeof(san.value) # "string" \/ Length(san.value) = 0 => san.out = <<>>
       /\ NoElements(Parse(san.out))
  /\ san.op = "sanitizePlainText twice" => san.again = san.out

C16_Witness ==
  /\ san.op = "sanitizePlainText twice"
  /\ typeof(san.value) = "string" /\ ~NoElements(Parse(san.value.str))
  /\ san.out # <<>> /\ san.out # san.value.str
  /\ san.again = san.out

(* the start tags of a document and their attributes *)
StartTags(doc) == {i \in 1..Len(doc) : doc[i].t = "start"}
AttrOf(tag, name) ==
  {tag.attrs[x].value : x \in {y \in 1..Len(tag.attrs) : tag.attrs[y].name = name}}

(* C17: the document that the result of sanitizeHTML denotes has no        *)
(* script, iframe, object, embed, form, input, button or style element,    *)
(* no event-handler attribute, no style attribute, and no javascript: URL  *)
(* in an href or src.                                                      *)
C17_NoActiveContent ==
  san.op = "sanitizeHTML" =>
    LET doc == Parse(san.out)
    IN \A i \in StartTags(doc) :
         /\ doc[i].name \notin FORBID_TAGS
         /\ \A x \in 1..Len(doc[i].attrs) :
              /\ doc[i].attrs[x].name \notin EventHandlerWords \cup FORBID_ATTR
              /\ doc[i].attrs[x].name \in {"href", "src"} =>
                   ~(At(doc[i].attrs[x].value, 1) = "javascript"
                     /\ At(doc[i].attrs[x].value, 2) = ":")

(* C18: every anchor of the document that the result of sanitizeHTML       *)
(* denotes has a rel attribute holding both noopener and noreferrer.       *)
C18_AnchorRel ==
  san.op = "sanitizeHTML" =>
    LET doc == Parse(san.out)
    IN \A i \in StartTags(doc) :
         doc[i].name = "a" =>
           \E rel \in AttrOf(doc[i], "rel") :
             /\ \E x \in 1..Len(rel) : rel[x] = "noopener"
             /\ \E x \in 1..Len(rel) : rel[x] = "noreferrer"

(* C19: every key stored for a TextContent is a non-empty string of at     *)
(* most 255 characters.                                                    *)
C19_StoredKeyLength ==
  \A e \in Range(MapValues(mem.textContent))
           \cup {toTextContent(db.text_content[i]) : i \in DOMAIN db.text_content} :
    Len(e.key) \in 1..KEY_MAX_LENGTH

---------------------------------------------------------------------------
(* C21: round trip.                                                        *)

GetByIdOps == {"getTextContent", "getBlogPost", "getPageConfig"}
GetByKeyOps == {"getTextContentByKey", "getBlogPostBySlug", "getPageConfigByKey"}

(* what a lookup answers, against the entities held when it is made: the   *)
(* entity stored under the id, the entity stored with the natural key, and *)
(* the not-found value (never a throw) for an id that is not stored        *)
Lookup(store, c, r) ==
  /\ c.op \in GetByIdOps =>
       IF c.id \in DOMAIN store THEN r.out = "entity" /\ r.val = store[c.id]
       ELSE r.out = "null"
  /\ c.op \in GetByKeyOps =>
       \A id \in DOMAIN store :
         store[id][NaturalKey] = c.arg => r.out = "entity" /\ r.val = store[id]

(* a stored entity stays as it is until an update or a delete of its id *)
KeptUntilChanged(old, new, c) ==
  \A id \in DOMAIN old :
    \/ id \in DOMAIN new /\ new[id] = old[id]
    \/ c.op \in UpdateOps \cup DeleteOps /\ c.id = id

(* C21: after save returns entity e, getById(e.id) and getByNaturalKey of  *)
(* e's natural key return an entity equal to e until e is updated or       *)
(* deleted; getById on an id never saved or deleted returns not-found and  *)
(* does not throw.  Checked on one storage object of each variant.         *)
C21_RoundTrip ==
  [][call'.op # "getCMSStorage" =>
       /\ Lookup(MemEntities(mem), call', resMem')
       /\ Lookup(DbEntities(db), call', resDb')
       /\ KeptUntilChanged(MemEntities(mem), MemEntities(mem'), call')
       /\ KeptUntilChanged(DbEntities(db), DbEntities(db'), call')
       /\ call'.op \in SaveOps =>
            /\ SaveFresh(MemEntities(mem), MemEntities(mem'), resMem')
            /\ SaveFresh(DbEntities(db), DbEntities(db'), resDb')]_vars

---------------------------------------------------------------------------
(* C22: concurrent requests on the Ephemeral storage.                      *)

(* the calls of the requests made one after the other, in the given order, *)
(* on the storage as the requests found it                                 *)
RECURSIVE Sequential(_, _, _)
Sequential(order, i, s) ==
  IF i > Len(order) THEN s
  ELSE LET task == req.tasks[order[i]]
           r == Mem_blogCall(s.mem, task.op, task.id, task.arg, s.now, s.nextId)
       IN Sequential(order, i + 1,
                     [mem |-> r.store, now |-> s.now + Ticks(task.op),
                      nextId |-> s.nextId + Fresh(task.op),
                      res |-> (order[i] :> [out |-> r.out, val |-> r.val]) @@ s.res])

Arrival ==
  [mem |-> Mem_saveBlogPost(InMemoryCMSStorage, FirstPost, 1, 1).store,
   now |-> 2, nextId |-> 2, res |-> EmptyMap]

Orders == {<<1, 2>>, <<2, 1>>}

(* C22: when save, update and delete calls of concurrent requests on the   *)
(* Ephemeral storage have all returned, in whatever order their blocks     *)
(* ran, the maps hold what the calls made one after the other in some      *)
(* order leave, and every call returned what it returns in that order: no  *)
(* update is lost and no entity is half updated.                           *)
C22_Serializable ==
  req.phase = "concurrent" /\ req.variant = "Ephemeral"
  /\ (\A p \in Procs : Done(req.tasks[p])) =>
    \E order \in Orders :
      LET s == Sequential(order, 1, Arrival)
      IN /\ mem = s.mem
         /\ \A p \in Procs :
              req.tasks[p].out = s.res[p].out /\ req.tasks[p].val = s.res[p].val

C22_Witness ==
  /\ req.phase = "concurrent" /\ req.variant = "Ephemeral"
  /\ \A p \in Procs : Done(req.tasks[p]) /\ req.tasks[p].op = "updateBlogPost"
                        /\ req.tasks[p].id = 1 /\ req.tasks[p].out = "entity"
  /\ DOMAIN req.tasks[1].arg = {"title"}
  /\ DOMAIN req.tasks[2].arg = {"published"} /\ req.tasks[2].arg.published
  /\ mem.blogPosts[1].title = "v2" /\ mem.blogPosts[1].published
  /\ mem.blogPosts[1].publishedAt = 2 /\ mem.blogPosts[1].updatedAt = 3

---------------------------------------------------------------------------
(* C27: on the Durable backend, when two updateBlogPost calls that both    *)
(* set published = true on the same never-published post run concurrently, *)
(* publishedAt is assigned by only one of them: once a publishedAt is      *)
(* stored for a post, no step of the other call overwrites it.             *)
C27_PublishedAtAssignedOnce ==
  [][req.phase = "concurrent" /\ req.variant = "Durable" =>
       \A id \in DOMAIN db.blog_posts \cap DOMAIN db'.blog_posts :
         db.blog_posts[id].published_at # NoTime =>
           db'.blog_posts[id].published_at = db.blog_posts[id].published_at]_vars

---------------------------------------------------------------------------
(* C28: in every reachable state of either storage variant, every stored   *)
(* BlogPost with published = true has publishedAt set, also when the       *)
(* Durable variant's lookup of the existing post fails or finds nothing.   *)

PublishedHasTime(posts) ==
  \A id \in DOMAIN posts : posts[id].published => posts[id].publishedAt # NoTime

C28_PublishedHasPublishedAt ==
  kind = "blog" =>
    /\ PublishedHasTime(MemEntities(mem))
    /\ PublishedHasTime(DbEntities(db))

---------------------------------------------------------------------------
(* C23: nothing is retried.  Within one request a call to the identity     *)
(* provider or to the remote database that failed is not attempted again   *)
(* and makes the request end with an error: a token whose verification     *)
(* failed in the derivation is not verified again by the guard, and a      *)
(* handler whose query failed does not answer as if it had not.            *)

Failed(outcome) == outcome \in {"error", "throw"}

EndsWithError(r) == r.phase = "done" => ~r.ran /\ r.status >= 400

C23_NothingRetried ==
  req.phase # "idle" =>
    /\ Failed(req.derived) => req.verified = "none" /\ EndsWithError(req)
    /\ Failed(req.verified) => EndsWithError(req)
    /\ (/\ req.phase = "done" /\ req.ran /\ req.route.kind \in Kinds
        /\ req.storage.variant = "Durable" /\ BackendFailed(resDb))
       => req.status >= 500

---------------------------------------------------------------------------
(* C24: a POST /image/upload request that carries a file and no            *)
(* Authorization header is answered with status 200 and a body holding     *)
(* the message 'Image uploaded successfully' and the generated filename,   *)
(* and the file is stored under that filename.                             *)
C24_UploadWithoutHeader ==
  req.phase = "done" /\ req.route = Upload /\ ~req.headers.present =>
    /\ req.ran /\ req.status = 200
    /\ resMem.out = "Image uploaded successfully"
    /\ resMem.val \in DOMAIN images
    /\ images[resMem.val] = req.body.file.data


---------------------------------------------------------------------------
(* C25: validation order, rejection and sanitization in the write routes   *)

(* the string fields of a route's body schema, in the order the schema     *)
(* declares them                                                           *)
Field(name, max, label, rich) == [name |-> name, max |-> max, label |-> label, rich |-> rich]

Schema(k) ==
  CASE k = "text" -> <<Field("key", KEY_MAX_LENGTH, "Key", FALSE),
                       Field("content", CONTENT_MAX_LENGTH, "Content", TRUE)>>
    [] k = "blog" -> <<Field("title", TITLE_MAX_LENGTH, "Title", FALSE),
                       Field("slug", SLUG_MAX_LENGTH, "Slug", FALSE),
                       Field("content", CONTENT_MAX_LENGTH, "Content", TRUE),
                       Field("excerpt", EXCERPT_MAX_LENGTH, "Excerpt", FALSE)>>
    [] k = "page" -> <<Field("pageKey", KEY_MAX_LENGTH, "Page key", FALSE),
                       Field("title", TITLE_MAX_LENGTH, "Title", FALSE),
                       Field("description", EXCERPT_MAX_LENGTH, "Description", FALSE)>>

(* the value a request submitted for a field *)
Submitted(r, name) ==
  IF r.route = PostText THEN JsString(r.body[name]) ELSE r.body[name]

FieldValidation(r, f) ==
  IF ~Provided(Submitted(r, f.name)) THEN [isValid |-> TRUE]
  ELSE IF f.rich THEN validateAndSanitizeContent(Submitted(r, f.name))
  ELSE validateStringLength(Submitted(r, f.name), f.max, f.label)

Sanitizer(r, f) ==
  IF f.rich THEN Str(sanitizeHTML(Submitted(r, f.name)))
  ELSE Str(sanitizePlainText(Submitted(r, f.name)))

Invalid(r) ==
  {i \in DOMAIN Schema(r.route.kind) : ~FieldValidation(r, Schema(r.route.kind)[i]).isValid}

FirstInvalid(r) == CHOOSE i \in Invalid(r) : \A j \in Invalid(r) : i <= j

(* arg, handed to storage for request r, holds the sanitizers' outputs and *)
(* the config as submitted                                                 *)
Sanitized(r, arg) ==
  /\ \A i \in DOMAIN Schema(r.route.kind) :
       LET f == Schema(r.route.kind)[i]
       IN IF Provided(Submitted(r, f.name))
          THEN Has(arg, f.name) /\ arg[f.name] = Sanitizer(r, f)
          ELSE ~Has(arg, f.name)
  /\ Has(arg, "tags") =>
       \A i \in DOMAIN arg.tags :
         arg.tags[i] = Str(sanitizePlainText(r.body.tags.items[i]))
  /\ Has(arg, "featuredImage") =>
       arg.featuredImage = Str(sanitizePlainText(r.body.featuredImage))
  /\ Has(arg, "config") => arg.config = r.body.config
  /\ Has(r.body, "config") /\ Provided(r.body.config) => Has(arg, "config")

(* C25: a handler of a create or update route that finds a field invalid   *)
(* answers 400 with the error of the first invalid field in the order of   *)
(* the schema and makes no storage call; otherwise the strings it hands to *)
(* storage are sanitizeHTML of the submitted content and sanitizePlainText *)
(* of every other submitted string, and the config is the submitted one.   *)
C25_ValidateThenSanitize ==
  [][(req.phase = "admitted" /\ req'.phase = "done" /\ req.route \in WriteRoutes)
       => IF Invalid(req) # {}
          THEN /\ req'.status = 400
               /\ req'.error =
                    FieldValidation(req, Schema(req.route.kind)[FirstInvalid(req)]).error
               /\ UNCHANGED <<call, mem, db, resMem, resDb, now, nextId>>
          ELSE /\ now' = now + 1
               /\ req'.status # 400
               /\ Sanitized(req, call'.arg)]_vars

(* a POST /cms/blog with an empty title and an empty slug was answered     *)
C25_Witness ==
  /\ req.phase = "done"
  /\ req.route = PostBlog
  /\ req.body.title = JsString(Empty)
  /\ req.body.slug = JsString(Empty)
  /\ req.status = 400
  /\ req.error = [rule |-> "empty", field |-> "Title"]

---------------------------------------------------------------------------
(* C26: author and publication flag of posts written through the routes    *)

(* the author recorded with each stored post *)
Authors(m, d) ==
  [store |-> [i \in DOMAIN m.blogPosts |-> m.blogPosts[i].authorId],
   rows |-> [i \in DOMAIN d.blog_posts |-> d.blog_posts[i].author_id]]

(* C26: the post POST /cms/blog hands to storage has authorId equal to the *)
(* id of the request's derived user, or "unknown" when there is none, and  *)
(* published false unless the body gave it; PUT /cms/blog/:id leaves the   *)
(* author of every stored post as it was.                                  *)
C26_BlogAuthor ==
  [][(req.phase = "admitted" /\ req'.phase = "done" /\ now' # now)
       => /\ req.route = PostBlog =>
               /\ call'.arg.authorId =
                    (IF req.user = NoUser THEN "unknown" ELSE req.user.id)
               /\ call'.arg.published =
                    (IF Provided(req.body.published) THEN req.body.published.bool
                     ELSE FALSE)
          /\ req.route = PutBlog =>
               /\ ~Has(call'.arg, "authorId")
               /\ Authors(mem', db') = Authors(mem, db)]_vars

---------------------------------------------------------------------------
(* C29: what the handler of a guarded CMS route runs with                  *)

(* C29: when the handler of a guarded CMS route has run, the request has a *)
(* derived user and its storage uses the client made for the request's     *)
(* token.                                                                  *)
C29_GuardedHandlerAuthenticated ==
  (req.phase = "done" /\ req.ran /\ Guarded(req.route) /\ req.route.kind \in Kinds)
    => /\ req.user # NoUser
       /\ req.storage.client = "user:" \o req.headers.token

---------------------------------------------------------------------------
(* C30: requests when SUPABASE_URL / SUPABASE_ANON_KEY are not set         *)

====
